---- MODULE Spec2Model ----
(***************************************************************************)
(* SAF-T PT: domain types (models.py, app/schemas/saft_data.py), mapping   *)
(* engine (mapping.py), XML generator (xml_generator.py).                  *)
(*                                                                         *)
(* Python values are tagged records [t, v]; a str is a sequence of         *)
(* one-character strings, a date is the integer YYYYMMDD, a Decimal is     *)
(* <<coefficient, number of fractional digits>>.                           *)
(***************************************************************************)
EXTENDS Integers, Sequences, FiniteSets, TLC

VARIABLES
    last,        \* domain library: the last construction attempt and its outcome
    mp,          \* mapping engine: one apply_mapping call in progress
    gen,         \* XML generator: the AuditFile at hand and the last call's outcome
    xv,          \* schema validator: one validate_saft_xml call, stage by stage
    ui,          \* HTTP handler: one generate-saft request
    asm,         \* audit assembly: the data store and the last assembled AuditFile
    eng,         \* engine: one process_and_store_file call and the stored rows
    dbi,         \* engine._db_initialized and the threads inside ensure_db_initialized
    prof,        \* mapping profiles of the web application and the last request
    dem,         \* the tables populate_demo_data fills and the last calls
    thr          \* threads calling the mapping engine, the generator, the validator

vars == <<last, mp, gen, xv, ui, asm, eng, dbi, prof, dem, thr>>

---------------------------------------------------------------------------
(* Python values *)

NoneV == [t |-> "none"]
S(s) == [t |-> "str", v |-> s]
I(n) == [t |-> "int", v |-> n]
D(n) == [t |-> "date", v |-> n]
Dec(c, p) == [t |-> "decimal", v |-> <<c, p>>]
Dict(f) == [t |-> "dict", v |-> f]
Lst(q) == [t |-> "list", v |-> q]
Obj(c, f) == [t |-> "obj", cls |-> c, v |-> f]

IsNone(x) == x.t = "none"
IsStr(x) == x.t = "str"
IsInt(x) == x.t = "int"

EmptyFn == [k \in {} |-> NoneV]

Digits == {"0", "1", "2", "3", "4", "5", "6", "7", "8", "9"}
Upper == {"A", "B", "C", "D", "E", "F", "G", "H", "I", "J", "K", "L", "M",
          "N", "O", "P", "Q", "R", "S", "T", "U", "V", "W", "X", "Y", "Z"}

Range(q) == {q[i] : i \in 1..Len(q)}

RECURSIVE Rep(_, _)
Rep(c, n) == IF n = 0 THEN <<>> ELSE <<c>> \o Rep(c, n - 1)

DigitVal(c) == CASE c = "0" -> 0 [] c = "1" -> 1 [] c = "2" -> 2 [] c = "3" -> 3
                 [] c = "4" -> 4 [] c = "5" -> 5 [] c = "6" -> 6 [] c = "7" -> 7
                 [] c = "8" -> 8 [] c = "9" -> 9

DigitChar(d) == <<"0", "1", "2", "3", "4", "5", "6", "7", "8", "9">>[d + 1]

RECURSIVE ParseNat(_)
ParseNat(q) == IF q = <<>> THEN 0
               ELSE 10 * ParseNat(SubSeq(q, 1, Len(q) - 1)) + DigitVal(q[Len(q)])

\* int(str) of pydantic's lax mode: optional sign is not modelled, digits only
IsNatStr(q) == Len(q) > 0 /\ Range(q) \subseteq Digits

---------------------------------------------------------------------------
(* Primitive constrained types *)

Lower == {"a", "b", "c", "d", "e", "f", "g", "h", "i", "j", "k", "l", "m",
          "n", "o", "p", "q", "r", "s", "t", "u", "v", "w", "x", "y", "z"}
Alnum == Digits \cup Upper \cup Lower

\* check_length(value, max_length, min_length): None passes through unchanged
check_length(x, max_length, min_length) ==
    \/ IsNone(x)
    \/ IsStr(x) /\ min_length <= Len(x.v) /\ Len(x.v) <= max_length

\* datetime.strptime(value, '%Y-%m-%d') on a zero-padded date string
IsDateStr(q) ==
    /\ Len(q) = 10
    /\ q[5] = "-" /\ q[8] = "-"
    /\ \A i \in {1, 2, 3, 4, 6, 7, 9, 10} : q[i] \in Digits
    /\ ParseNat(SubSeq(q, 6, 7)) \in 1..12
    /\ ParseNat(SubSeq(q, 9, 10)) \in 1..31
    /\ ParseNat(SubSeq(q, 1, 4)) >= 1

ParseDate(q) ==
    ParseNat(SubSeq(q, 1, 4)) * 10000 + ParseNat(SubSeq(q, 6, 7)) * 100
        + ParseNat(SubSeq(q, 9, 10))

\* SAFPTDateSpan.validate: the value it returns (a date) for an input it accepts
DateSpanValue(x) == IF IsStr(x) THEN D(ParseDate(x.v)) ELSE x

SAFPTDateSpan_validate(x) ==
    /\ x.t \in {"date", "str"}
    /\ IsStr(x) => IsDateStr(x.v)
    /\ 20000101 <= DateSpanValue(x).v /\ DateSpanValue(x).v <= 99991231

SAFPTGLAccountID_validate(x) ==
    /\ IsStr(x)
    /\ "^" \notin Range(x.v)
    /\ check_length(x, 30, 2)

SAFPTPortugueseVatNumber_validate(x) ==
    IsInt(x) /\ 100000000 <= x.v /\ x.v <= 999999999

CurrencyPT_validate(x) == x = S(<<"E", "U", "R">>)

AuditFileVersion_validate(x) == x = S(<<"1", ".", "0", "4", "_", "0", "1">>)

\* re.fullmatch(r"[0-9]{9}", value) or re.fullmatch(r"[^^]+ [0-9/]+", value)
CompanyIDType_validate(x) ==
    /\ IsStr(x)
    /\ \/ Len(x.v) = 9 /\ Range(x.v) \subseteq Digits
       \/ \E i \in 2..(Len(x.v) - 1) :
            /\ x.v[i] = " "
            /\ "^" \notin Range(SubSeq(x.v, 1, i - 1))
            /\ Range(SubSeq(x.v, i + 1, Len(x.v))) \subseteq (Digits \cup {"/"})
    /\ check_length(x, 50, 1)

ProductIDType_validate(x) ==
    /\ IsStr(x)
    /\ "/" \in Range(x.v)
    /\ x.v[1] # "/" /\ x.v[Len(x.v)] # "/"
    /\ check_length(x, 255, 3)

CountryType_validate(x) ==
    IsStr(x) /\ Len(x.v) = 2 /\ Range(x.v) \subseteq Upper

Desconhecido == <<"D", "e", "s", "c", "o", "n", "h", "e", "c", "i", "d", "o">>

CustomerCountry_validate(x) ==
    x = S(Desconhecido) \/ CountryType_validate(x)

SAFPTTaxonomyCode_validate(x) == IsInt(x) /\ 1 <= x.v /\ x.v <= 999

TaxCodeWords ==
    {<<"R", "E", "D">>, <<"I", "N", "T">>, <<"N", "O", "R">>, <<"I", "S", "E">>,
     <<"O", "U", "T">>, <<"N", "S">>, <<"N", "A">>}

TaxTableEntryTaxCode_validate(x) ==
    /\ IsStr(x)
    /\ check_length(x, 10, 1)
    /\ x.v \in TaxCodeWords \/ Range(x.v) \subseteq (Alnum \cup {"."})

\* condecimal(ge=Decimal('0.00'), decimal_places=2)
SAFmonetaryType_validate(x) ==
    x.t = "decimal" /\ x.v[1] >= 0 /\ x.v[2] <= 2

\* condecimal(ge=Decimal('0.00'))
DecimalGe0_validate(x) == x.t = "decimal" /\ x.v[1] >= 0

\* a pydantic int field in lax mode: an int, or a str of digits
IntLax_ok(x) == IsInt(x) \/ (IsStr(x) /\ IsNatStr(x.v))
IntLax_value(x) == IF IsStr(x) THEN I(ParseNat(x.v)) ELSE x

\* a pydantic str field with Field(min_length=, max_length=)
StrField_ok(x, min_length, max_length) ==
    IsStr(x) /\ min_length <= Len(x.v) /\ Len(x.v) <= max_length

\* a pydantic float field with Field(ge=0.0)
FloatGe0_ok(x) == x.t = "decimal" /\ x.v[1] >= 0

Lit(set, x) == IsStr(x) /\ x.v \in set

TaxAccountingBasisEnum == {<<"C">>, <<"E">>, <<"F">>, <<"I">>, <<"P">>, <<"R">>, <<"S">>, <<"T">>}
GroupingCategoryEnum == {<<"G", "R">>, <<"G", "A">>, <<"G", "M">>, <<"A", "R">>, <<"A", "A">>, <<"A", "M">>}
TaxTypeEnum == {<<"I", "V", "A">>, <<"I", "S">>, <<"N", "S">>}
ProductTypeEnum == {<<"P">>, <<"S">>, <<"O">>, <<"E">>, <<"I">>}
\* the country codes of TaxCountryRegionType the model's inputs use
TaxCountryRegionType == {<<"P", "T">>, <<"E", "S">>, <<"P", "T", "-", "A", "C">>, <<"P", "T", "-", "M", "A">>}

---------------------------------------------------------------------------
(* Field declarations of the composite types, in declaration order.        *)
(* req: no default; opt: Optional[...] (None is accepted as it is);        *)
(* k, a, b: the field's type and its parameters; def: the default.         *)

Req(n, k, a, b) == [n |-> n, req |-> TRUE, opt |-> FALSE, k |-> k, a |-> a, b |-> b, def |-> NoneV]
Opt(n, k, a, b) == [n |-> n, req |-> FALSE, opt |-> TRUE, k |-> k, a |-> a, b |-> b, def |-> NoneV]
Dfl(n, k, a, b, d) == [n |-> n, req |-> FALSE, opt |-> FALSE, k |-> k, a |-> a, b |-> b, def |-> d]

AddressStructure ==
    << Opt("BuildingNumber", "text", 10, 0), Opt("StreetName", "text", 200, 0),
       Req("AddressDetail", "text", 210, 0), Req("City", "text", 50, 0),
       Req("PostalCode", "text", 20, 0), Opt("Region", "text", 50, 0),
       Req("Country", "country", 0, 0) >>

CustomerAddressStructure ==
    << Opt("BuildingNumber", "text", 10, 0), Opt("StreetName", "text", 200, 0),
       Req("AddressDetail", "text", 210, 0), Req("City", "text", 50, 0),
       Req("PostalCode", "text", 20, 0), Opt("Region", "text", 50, 0),
       Req("Country", "customercountry", 0, 0) >>

Header ==
    << Req("AuditFileVersion", "version", 0, 0), Req("CompanyID", "companyid", 0, 0),
       Req("TaxRegistrationNumber", "vat", 0, 0),
       Req("TaxAccountingBasis", "literal", TaxAccountingBasisEnum, 0),
       Req("CompanyName", "text", 100, 0), Opt("BusinessName", "text", 60, 0),
       Req("CompanyAddress", "model", "AddressStructure", 0),
       Req("FiscalYear", "intrange", 2000, 9999),
       Req("StartDate", "datespan", 0, 0), Req("EndDate", "datespan", 0, 0),
       Req("CurrencyCode", "currency", 0, 0), Req("DateCreated", "datespan", 0, 0),
       Req("TaxEntity", "text", 20, 0), Req("ProductCompanyTaxID", "text", 30, 0),
       Req("SoftwareCertificateNumber", "intge", 0, 0),
       Req("ProductID", "productid", 0, 0), Req("ProductVersion", "text", 30, 0),
       Opt("HeaderComment", "text", 255, 0), Opt("Telephone", "text", 20, 0),
       Opt("Fax", "text", 20, 0), Opt("Email", "text", 254, 0),
       Opt("Website", "text", 60, 0) >>

Customer ==
    << Opt("id", "anyint", 0, 0),
       Req("CustomerID", "text", 30, 0), Req("AccountID", "glaccount", 0, 0),
       Req("CustomerTaxID", "text", 30, 0), Req("CompanyName", "text", 100, 0),
       Opt("Contact", "text", 50, 0),
       Req("BillingAddress", "model", "CustomerAddressStructure", 0),
       Opt("ShipToAddress", "listmodel", "CustomerAddressStructure", 0),
       Opt("Telephone", "text", 20, 0), Opt("Fax", "text", 20, 0),
       Opt("Email", "text", 254, 0), Opt("Website", "text", 60, 0),
       Dfl("SelfBillingIndicator", "anyint", 0, 0, I(0)),
       Opt("owner_id", "anyint", 0, 0) >>

Supplier ==
    << Opt("id", "anyint", 0, 0),
       Req("SupplierID", "text", 30, 0), Req("AccountID", "glaccount", 0, 0),
       Req("SupplierTaxID", "text", 30, 0), Req("CompanyName", "text", 100, 0),
       Opt("Contact", "text", 50, 0),
       Req("BillingAddress", "model", "AddressStructure", 0),
       Opt("ShipFromAddress", "listmodel", "AddressStructure", 0),
       Opt("Telephone", "text", 20, 0), Opt("Fax", "text", 20, 0),
       Opt("Email", "text", 254, 0), Opt("Website", "text", 60, 0),
       Dfl("SelfBillingIndicator", "anyint", 0, 0, I(0)) >>

Account ==
    << Opt("id", "anyint", 0, 0),
       Req("AccountID", "glaccount", 0, 0), Req("AccountDescription", "text", 100, 0),
       Req("OpeningDebitBalance", "monetary", 0, 0),
       Req("OpeningCreditBalance", "monetary", 0, 0),
       Req("ClosingDebitBalance", "monetary", 0, 0),
       Req("ClosingCreditBalance", "monetary", 0, 0),
       Req("GroupingCategory", "literal", GroupingCategoryEnum, 0),
       Opt("GroupingCode", "glaccount", 0, 0), Opt("TaxonomyCode", "taxonomy", 0, 0) >>

GeneralLedgerAccounts ==
    << Req("TaxonomyReference", "literal", {<<"S">>, <<"M">>, <<"N">>, <<"O">>}, 0),
       Req("Account", "listmodel", "Account", 0) >>

Product ==
    << Opt("id", "anyint", 0, 0),
       Req("ProductType", "literal", ProductTypeEnum, 0),
       Req("ProductCode", "text", 60, 0), Opt("ProductGroup", "text", 50, 0),
       Req("ProductDescription", "text", 200, 0),
       Req("ProductNumberCode", "text", 60, 0) >>

TaxTableEntry ==
    << Req("TaxType", "literal", TaxTypeEnum, 0),
       Req("TaxCountryRegion", "literal", TaxCountryRegionType, 0),
       Req("TaxCode", "taxcode", 0, 0), Req("Description", "text", 255, 0),
       Opt("TaxExpirationDate", "datespan", 0, 0),
       Opt("TaxPercentage", "decimalge0", 0, 0), Opt("TaxAmount", "monetary", 0, 0) >>

TaxTable == << Req("TaxTableEntry", "listmodel", "TaxTableEntry", 0) >>

MasterFiles ==
    << Opt("GeneralLedgerAccounts", "model", "GeneralLedgerAccounts", 0),
       Opt("Customer", "listmodel", "Customer", 0),
       Opt("Supplier", "listmodel", "Supplier", 0),
       Opt("Product", "listmodel", "Product", 0),
       Opt("TaxTable", "model", "TaxTable", 0) >>

DebitLine ==
    << Req("RecordID", "text", 30, 0), Req("AccountID", "glaccount", 0, 0),
       Opt("SourceDocumentID", "text", 60, 0), Req("SystemEntryDate", "datetime", 0, 0),
       Req("Description", "text", 200, 0), Req("DebitAmount", "monetary", 0, 0) >>

CreditLine ==
    << Req("RecordID", "text", 30, 0), Req("AccountID", "glaccount", 0, 0),
       Opt("SourceDocumentID", "text", 60, 0), Req("SystemEntryDate", "datetime", 0, 0),
       Req("Description", "text", 200, 0), Req("CreditAmount", "monetary", 0, 0) >>

Lines ==
    << Req("DebitLine", "listmodel", "DebitLine", 0),
       Req("CreditLine", "listmodel", "CreditLine", 0) >>

Transaction ==
    << Req("TransactionID", "transactionid", 0, 0), Req("Period", "strictint", 1, 16),
       Req("TransactionDate", "datespan", 0, 0), Req("SourceID", "text", 30, 0),
       Req("Description", "text", 200, 0), Req("DocArchivalNumber", "nospace", 20, 0),
       Req("TransactionType", "literal", {<<"N">>, <<"R">>, <<"A">>, <<"J">>}, 0),
       Req("GLPostingDate", "datespan", 0, 0),
       Opt("CustomerID", "text", 30, 0), Opt("SupplierID", "text", 30, 0),
       Req("Lines", "model", "Lines", 0) >>

Journal ==
    << Req("JournalID", "nospace", 30, 0), Req("Description", "text", 200, 0),
       Opt("Transaction", "listmodel", "Transaction", 0) >>

GeneralLedgerEntries ==
    << Req("NumberOfEntries", "intge", 0, 0), Req("TotalDebit", "monetary", 0, 0),
       Req("TotalCredit", "monetary", 0, 0), Opt("Journal", "listmodel", "Journal", 0) >>

AuditFile ==
    << Req("Header", "model", "Header", 0), Req("MasterFiles", "model", "MasterFiles", 0),
       Opt("GeneralLedgerEntries", "model", "GeneralLedgerEntries", 0) >>

\* app/schemas/saft_data.py
SaftData_AddressStructure ==
    << Opt("BuildingNumber", "str", 0, 10), Opt("StreetName", "str", 0, 200),
       Req("AddressDetail", "str", 0, 210), Req("City", "str", 0, 50),
       Req("PostalCode", "str", 0, 20), Opt("Region", "str", 0, 50),
       Req("Country", "str", 2, 2) >>

SaftData_Header ==
    << Req("AuditFileVersion", "version", 0, 0), Req("CompanyID", "str", 1, 50),
       Req("TaxRegistrationNumber", "intrange", 100000000, 999999999),
       Req("TaxAccountingBasis", "literal", TaxAccountingBasisEnum, 0),
       Req("CompanyName", "str", 1, 100), Opt("BusinessName", "str", 1, 60),
       Req("CompanyAddress", "model", "SaftData_AddressStructure", 0),
       Req("FiscalYear", "intrange", 2000, 9999),
       Req("StartDate", "date", 0, 0), Req("EndDate", "date", 0, 0),
       Req("CurrencyCode", "currency", 0, 0), Req("DateCreated", "date", 0, 0),
       Req("TaxEntity", "str", 1, 20), Req("ProductCompanyTaxID", "str", 1, 30),
       Req("SoftwareCertificateNumber", "intge", 0, 0),
       Req("ProductID", "productidpattern", 0, 0), Req("ProductVersion", "str", 1, 30),
       Opt("HeaderComment", "str", 1, 255), Opt("Telephone", "str", 1, 20),
       Opt("Fax", "str", 1, 20), Opt("Email", "email", 0, 0),
       Opt("Website", "str", 1, 60) >>

SaftData_GeneralLedgerAccount ==
    << Req("AccountID", "str", 2, 30), Req("AccountDescription", "str", 1, 100),
       Req("OpeningDebitBalance", "floatge0", 0, 0),
       Req("OpeningCreditBalance", "floatge0", 0, 0),
       Req("ClosingDebitBalance", "floatge0", 0, 0),
       Req("ClosingCreditBalance", "floatge0", 0, 0),
       Req("GroupingCategory", "literal", GroupingCategoryEnum, 0),
       Opt("GroupingCode", "str", 2, 30), Opt("TaxonomyCode", "intrange", 1, 999) >>

SaftData_TaxTableEntry ==
    << Req("TaxType", "literal", TaxTypeEnum, 0),
       Req("TaxCountryRegion", "regionpattern", 0, 0),
       Req("TaxCode", "str", 1, 10), Req("Description", "str", 1, 255),
       Opt("TaxExpirationDate", "date", 0, 0),
       Opt("TaxPercentage", "floatge0", 0, 0), Opt("TaxAmount", "floatge0", 0, 0) >>

\* app/schemas/saft_data.py TransactionLines: a placeholder without fields
SaftData_TransactionLines == << >>

\* app/schemas/saft_data.py Transaction: no validator relates CustomerID and
\* SupplierID ("TODO: Validator for CustomerID or SupplierID choice")
SaftData_Transaction ==
    << Req("TransactionID", "anystr", 0, 0), Req("Period", "anyint", 0, 0),
       Req("TransactionDate", "date", 0, 0), Req("SourceID", "str", 0, 30),
       Req("Description", "str", 0, 200), Req("DocArchivalNumber", "anystr", 0, 0),
       Req("TransactionType", "anystr", 0, 0), Req("GLPostingDate", "date", 0, 0),
       Opt("CustomerID", "str", 0, 30), Opt("SupplierID", "str", 0, 30),
       Req("Lines", "model", "SaftData_TransactionLines", 0) >>

FieldsOf(cls) ==
    CASE cls = "AddressStructure" -> AddressStructure
      [] cls = "CustomerAddressStructure" -> CustomerAddressStructure
      [] cls = "Header" -> Header
      [] cls = "Customer" -> Customer
      [] cls = "Supplier" -> Supplier
      [] cls = "Account" -> Account
      [] cls = "GeneralLedgerAccounts" -> GeneralLedgerAccounts
      [] cls = "Product" -> Product
      [] cls = "TaxTableEntry" -> TaxTableEntry
      [] cls = "TaxTable" -> TaxTable
      [] cls = "MasterFiles" -> MasterFiles
      [] cls = "DebitLine" -> DebitLine
      [] cls = "CreditLine" -> CreditLine
      [] cls = "Lines" -> Lines
      [] cls = "Transaction" -> Transaction
      [] cls = "Journal" -> Journal
      [] cls = "GeneralLedgerEntries" -> GeneralLedgerEntries
      [] cls = "AuditFile" -> AuditFile
      [] cls = "SaftData_AddressStructure" -> SaftData_AddressStructure
      [] cls = "SaftData_Header" -> SaftData_Header
      [] cls = "SaftData_GeneralLedgerAccount" -> SaftData_GeneralLedgerAccount
      [] cls = "SaftData_TaxTableEntry" -> SaftData_TaxTableEntry
      [] cls = "SaftData_TransactionLines" -> SaftData_TransactionLines
      [] cls = "SaftData_Transaction" -> SaftData_Transaction

---------------------------------------------------------------------------
(* Validators attached to the composite types *)

Get(f, k) == IF k \in DOMAIN f THEN f[k] ELSE NoneV
Extend(f, k, x) == [n \in DOMAIN f \cup {k} |-> IF n = k THEN x ELSE f[n]]

Global == <<"G", "l", "o", "b", "a", "l">>

\* saft_data.Header.validate_company_id: ^(?:[0-9]{9}|[^ ]+ [0-9/]+)$
validate_company_id(x) ==
    \/ Len(x.v) = 9 /\ Range(x.v) \subseteq Digits
    \/ \E i \in 2..(Len(x.v) - 1) :
         /\ x.v[i] = " "
         /\ " " \notin Range(SubSeq(x.v, 1, i - 1))
         /\ Range(SubSeq(x.v, i + 1, Len(x.v))) \subseteq (Digits \cup {"/"})

\* saft_data.Header.validate_product_company_tax_id: ^(?:[0-9]{9}|Global)$
validate_product_company_tax_id(x) ==
    (Len(x.v) = 9 /\ Range(x.v) \subseteq Digits) \/ x.v = Global

\* saft_data.Header.validate_end_date_after_start_date(value, values)
validate_end_date_after_start_date(value, values) ==
    ~("StartDate" \in DOMAIN values /\ value.v < values["StartDate"].v)

\* models.Transaction.check_customer_supplier_exclusivity(v, values, field)
check_customer_supplier_exclusivity(name, x, values) ==
    /\ ~(name = "CustomerID" /\ ~IsNone(x) /\ ~IsNone(Get(values, "SupplierID")))
    /\ ~(name = "SupplierID" /\ ~IsNone(x) /\ ~IsNone(Get(values, "CustomerID")))

\* The outcome of the @validator functions of field `name` of class cls:
\* "ok", or the kind of error raised ("field": one field; "cross": several)
FieldValidatorErr(cls, name, x, values) ==
    CASE cls = "SaftData_Header" /\ name = "CompanyID" ->
            IF validate_company_id(x) THEN "ok" ELSE "field"
      [] cls = "SaftData_Header" /\ name = "ProductCompanyTaxID" ->
            IF validate_product_company_tax_id(x) THEN "ok" ELSE "field"
      [] cls = "SaftData_Header" /\ name = "EndDate" ->
            IF validate_end_date_after_start_date(x, values) THEN "ok" ELSE "cross"
      [] cls = "Transaction" /\ name \in {"CustomerID", "SupplierID"} ->
            IF check_customer_supplier_exclusivity(name, x, values) THEN "ok" ELSE "cross"
      [] OTHER -> "ok"

\* whether the @validator of the field also runs on a default (always=True)
ValidatorAlways(cls, name) == cls = "Transaction" /\ name \in {"CustomerID", "SupplierID"}

\* models.TaxTableEntry.check_tax_rules (model_validator, mode='after')
check_tax_rules_noboth(self) ==
    ~(IsNone(self["TaxPercentage"]) /\ IsNone(self["TaxAmount"]))

check_tax_rules(self) ==
    /\ ~(IsNone(self["TaxPercentage"]) /\ IsNone(self["TaxAmount"]))
    /\ ~(~IsNone(self["TaxPercentage"]) /\ ~IsNone(self["TaxAmount"]))

\* saft_data.TaxTableEntry.check_tax_percentage_or_amount
check_tax_percentage_or_amount(self) ==
    LET percentage_present == ~IsNone(self["TaxPercentage"])
        amount_present == ~IsNone(self["TaxAmount"])
    IN /\ ~(percentage_present /\ amount_present)
       /\ ~(~percentage_present /\ ~amount_present)

\* saft_data.GeneralLedgerAccount.check_assertions
check_assertions(self) ==
    LET is_gm == self["GroupingCategory"] = S(<<"G", "M">>)
        taxonomy_code_present == ~IsNone(self["TaxonomyCode"])
        grouping_code_present == ~IsNone(self["GroupingCode"])
        category_requires_grouping_code ==
            self["GroupingCategory"].v \in {<<"G", "A">>, <<"A", "A">>, <<"G", "M">>, <<"A", "M">>}
        category_prohibits_grouping_code ==
            self["GroupingCategory"].v \in {<<"G", "R">>, <<"A", "R">>}
    IN /\ ~(is_gm /\ ~taxonomy_code_present)
       /\ ~(~is_gm /\ taxonomy_code_present)
       /\ ~(category_requires_grouping_code /\ ~grouping_code_present)
       /\ ~(category_prohibits_grouping_code /\ grouping_code_present)

\* The model_validator(mode='after') of class cls, run on the validated fields
ModelValidatorOk(cls, self) ==
    CASE cls = "TaxTableEntry" -> check_tax_rules(self)
      [] cls = "SaftData_TaxTableEntry" -> check_tax_percentage_or_amount(self)
      [] cls = "SaftData_GeneralLedgerAccount" -> check_assertions(self)
      [] OTHER -> TRUE

---------------------------------------------------------------------------
(* Construction of a composite: every field is validated in declaration    *)
(* order against the fields validated so far; the model validators run     *)
(* only when no field failed.                                              *)

\* SAFPTTransactionID.validate: value.split(" ") has >= 3 parts, the first a date
SAFPTTransactionID_validate(x) ==
    /\ IsStr(x)
    /\ Cardinality({i \in 1..Len(x.v) : x.v[i] = " "}) >= 2
    /\ \E i \in 1..Len(x.v) :
         /\ x.v[i] = " "
         /\ " " \notin Range(SubSeq(x.v, 1, i - 1))
         /\ IsDateStr(SubSeq(x.v, 1, i - 1))
    /\ check_length(x, 70, 1)

\* SAFPTJournalID.validate, SAFTPTDocArchivalNumber.validate
NoSpace_validate(x, max_length) ==
    IsStr(x) /\ " " \notin Range(x.v) /\ check_length(x, max_length, 1)

\* Field(pattern=r"^[^/]+/[^/]+$", min_length=3, max_length=255)
ProductIdPattern_ok(x) ==
    /\ StrField_ok(x, 3, 255)
    /\ Cardinality({i \in 1..Len(x.v) : x.v[i] = "/"}) = 1
    /\ x.v[1] # "/" /\ x.v[Len(x.v)] # "/"

\* Field(pattern=r"^([A-Z]{2}|PT-AC|PT-MA)$")
RegionPattern_ok(x) ==
    /\ IsStr(x)
    /\ \/ Len(x.v) = 2 /\ Range(x.v) \subseteq Upper
       \/ x.v \in {<<"P", "T", "-", "A", "C">>, <<"P", "T", "-", "M", "A">>}

RECURSIVE ValidateModel(_, _)
RECURSIVE FieldOk(_, _)
RECURSIVE FieldValue(_, _)
RECURSIVE ValFields(_, _, _, _, _)

\* one nested value: an instance of the class is taken as it is, a dict is validated
NestedOk(cls, x) ==
    \/ x.t = "obj" /\ x.cls = cls
    \/ x.t = "dict" /\ ValidateModel(cls, x.v).ok

NestedValue(cls, x) == IF x.t = "dict" THEN ValidateModel(cls, x.v).obj ELSE x

FieldOk(f, x) ==
    CASE f.k = "text" -> check_length(x, f.a, 1)
      [] f.k = "str" -> StrField_ok(x, f.a, f.b)
      [] f.k = "anystr" -> IsStr(x)
      [] f.k = "country" -> CountryType_validate(x)
      [] f.k = "customercountry" -> CustomerCountry_validate(x)
      [] f.k = "version" -> AuditFileVersion_validate(x)
      [] f.k = "companyid" -> CompanyIDType_validate(x)
      [] f.k = "vat" -> SAFPTPortugueseVatNumber_validate(x)
      [] f.k = "literal" -> Lit(f.a, x)
      [] f.k = "intrange" -> IntLax_ok(x) /\ f.a <= IntLax_value(x).v /\ IntLax_value(x).v <= f.b
      [] f.k = "intge" -> IntLax_ok(x) /\ f.a <= IntLax_value(x).v
      [] f.k = "anyint" -> IntLax_ok(x)
      [] f.k = "strictint" -> IsInt(x) /\ f.a <= x.v /\ x.v <= f.b
      [] f.k = "datespan" -> SAFPTDateSpan_validate(x)
      [] f.k = "date" -> x.t = "date" \/ (IsStr(x) /\ IsDateStr(x.v))
      [] f.k = "datetime" -> x.t = "datetime"
      [] f.k = "currency" -> CurrencyPT_validate(x)
      [] f.k = "productid" -> ProductIDType_validate(x)
      [] f.k = "productidpattern" -> ProductIdPattern_ok(x)
      [] f.k = "regionpattern" -> RegionPattern_ok(x)
      [] f.k = "email" -> IsStr(x) /\ "@" \in Range(x.v)
      [] f.k = "glaccount" -> SAFPTGLAccountID_validate(x)
      [] f.k = "taxonomy" -> SAFPTTaxonomyCode_validate(x)
      [] f.k = "taxcode" -> TaxTableEntryTaxCode_validate(x)
      [] f.k = "monetary" -> SAFmonetaryType_validate(x)
      [] f.k = "decimalge0" -> DecimalGe0_validate(x)
      [] f.k = "floatge0" -> FloatGe0_ok(x)
      [] f.k = "transactionid" -> SAFPTTransactionID_validate(x)
      [] f.k = "nospace" -> NoSpace_validate(x, f.a)
      [] f.k = "model" -> NestedOk(f.a, x)
      [] f.k = "listmodel" -> x.t = "list" /\ \A i \in 1..Len(x.v) : NestedOk(f.a, x.v[i])

\* the value the field holds after validation (conversions of the field's type)
FieldValue(f, x) ==
    CASE f.k \in {"intrange", "intge", "anyint"} -> IntLax_value(x)
      [] f.k \in {"datespan", "date"} -> DateSpanValue(x)
      [] f.k = "model" -> NestedValue(f.a, x)
      [] f.k = "listmodel" -> Lst([i \in 1..Len(x.v) |-> NestedValue(f.a, x.v[i])])
      [] OTHER -> x

Err(loc, kind) == [loc |-> loc, kind |-> kind]

ValFields(cls, fs, i, data, acc) ==
    IF i > Len(fs) THEN acc
    ELSE LET f == fs[i]
             given == f.n \in DOMAIN data
             x == IF given THEN data[f.n] ELSE f.def
             asIs == ~given \/ (f.opt /\ IsNone(x))
             typeOk == IF ~given THEN ~f.req ELSE asIs \/ FieldOk(f, x)
             val == IF asIs THEN x ELSE FieldValue(f, x)
             verr == IF typeOk /\ (given \/ ValidatorAlways(cls, f.n)) /\ ~IsNone(val)
                     THEN FieldValidatorErr(cls, f.n, val, acc.values)
                     ELSE "ok"
         IN ValFields(cls, fs, i + 1, data,
                IF ~typeOk
                THEN [values |-> acc.values, errs |-> acc.errs \cup {Err(f.n, "field")}]
                ELSE IF verr # "ok"
                THEN [values |-> acc.values, errs |-> acc.errs \cup {Err(f.n, verr)}]
                ELSE [values |-> Extend(acc.values, f.n, val), errs |-> acc.errs])

\* cls(**data) / cls.model_validate(data): [ok, obj, errs]
ValidateModel(cls, data) ==
    LET result(r, cross) ==
            [ok |-> r.errs = {} /\ cross = {},
             obj |-> Obj(cls, r.values),
             errs |-> r.errs \cup cross]
        validated(r) ==
            result(r, IF r.errs = {} /\ ~ModelValidatorOk(cls, r.values)
                      THEN {Err("__root__", "cross")} ELSE {})
    IN validated(ValFields(cls, FieldsOf(cls), 1, data, [values |-> EmptyFn, errs |-> {}]))

---------------------------------------------------------------------------
(* mapping.py: apply_mapping.  A profile's mappings are the ordered pairs   *)
(* (csv_column, model_path); a model_path is held as its parts, the result  *)
(* of model_path.split('.').                                                *)

Map(csv_column, model_path) == [csv_column |-> csv_column, model_path |-> model_path]

MappingProfile(profile_name, target_model, mappings) ==
    [profile_name |-> profile_name, target_model |-> target_model, mappings |-> mappings]

NoProfile == MappingProfile("", "", <<>>)

\* the value of available_models.get(name) when name is no key
NoneCls == "None"

\* available_models.get(mapping_profile.target_model)
registry_get(available_models, name) ==
    IF name \in DOMAIN available_models THEN available_models[name] ELSE NoneCls

\* `if not TargetModel`
not_TargetModel_never(TargetModel) == FALSE

not_TargetModel(TargetModel) == TargetModel = NoneCls

\* lines 53-70: walk parts[:-1] creating dicts, then set the final field;
\* ok is FALSE when a part on the way holds something that is no dict
\* lines 58-65: a part on the way holds a value that is no dict; the mapping
\* is skipped and the row's dict stays as it is
path_conflict_drops_row(current_level) == [ok |-> FALSE, d |-> EmptyFn]

path_conflict(current_level) == [ok |-> FALSE, d |-> current_level]

RECURSIVE SetAtPath(_, _, _)
SetAtPath(current_level, parts, value) ==
    IF Len(parts) = 1
    THEN [ok |-> TRUE, d |-> Extend(current_level, parts[1], value)]
    ELSE LET part == parts[1]
         IN IF part \notin DOMAIN current_level
            THEN [ok |-> TRUE,
                  d |-> Extend(current_level, part,
                               Dict(SetAtPath(EmptyFn, Tail(parts), value).d))]
            ELSE IF current_level[part].t # "dict"
            THEN path_conflict(current_level)
            ELSE LET sub == SetAtPath(current_level[part].v, Tail(parts), value)
                 IN [ok |-> sub.ok,
                     d |-> IF sub.ok THEN Extend(current_level, part, Dict(sub.d))
                           ELSE current_level]

\* lines 47-70, one (csv_column, model_path) of the profile
map_column_abandon(model_dict_data, row_data, m) ==
    IF m.csv_column \notin DOMAIN row_data THEN EmptyFn
    ELSE SetAtPath(model_dict_data, m.model_path, row_data[m.csv_column]).d

map_column(model_dict_data, row_data, m) ==
    IF m.csv_column \notin DOMAIN row_data THEN model_dict_data
    ELSE SetAtPath(model_dict_data, m.model_path, row_data[m.csv_column]).d

RECURSIVE map_columns(_, _, _, _)
map_columns(model_dict_data, row_data, mappings, k) ==
    IF k > Len(mappings) THEN model_dict_data
    ELSE map_columns(map_column(model_dict_data, row_data, mappings[k]),
                     row_data, mappings, k + 1)

\* lines 46-70: the nested dict built from one row
build_model_dict_data(row_data, mappings) == map_columns(EmptyFn, row_data, mappings, 1)

\* lines 76-84: TargetModel.model_validate(model_dict_data) inside try/except;
\* ValidationError and every other Exception are logged and swallowed
try_model_validate(TargetModel, model_dict_data) ==
    IF TargetModel = NoneCls THEN [ok |-> FALSE, obj |-> NoneV, errs |-> {Err("", "exception")}]
    ELSE ValidateModel(TargetModel, model_dict_data)

\* lines 72-84: what one row adds to populated_models
append_instance_or_restart(populated_models, TargetModel, model_dict_data) ==
    IF DOMAIN model_dict_data = {} THEN populated_models
    ELSE LET r == try_model_validate(TargetModel, model_dict_data)
         IN IF r.ok THEN Append(populated_models, r.obj) ELSE <<>>

append_instance(populated_models, TargetModel, model_dict_data) ==
    IF DOMAIN model_dict_data = {} THEN populated_models
    ELSE LET r == try_model_validate(TargetModel, model_dict_data)
         IN IF r.ok THEN Append(populated_models, r.obj) ELSE populated_models

---------------------------------------------------------------------------
(* xml_generator.py: generate_saft_xml.  The document is held as its element *)
(* tree; an element is [tag, text, kids], text being the characters of a     *)
(* leaf.  A datetime is <<YYYYMMDD, HHMMSS>>.                                *)

DT(d, t) == [t |-> "datetime", v |-> <<d, t>>]

SAFT_PT_NAMESPACE == "urn:OECD:StandardAuditFile-Tax:PT_1.04_01"

\* str(int) for n >= 0
RECURSIVE NatStr(_)
NatStr(n) == IF n < 10 THEN <<DigitChar(n)>> ELSE NatStr(n \div 10) \o <<DigitChar(n % 10)>>

\* n >= 0 written with exactly w digits (zero padded)
RECURSIVE Pad(_, _)
Pad(n, w) == IF w = 0 THEN <<>> ELSE Pad(n \div 10, w - 1) \o <<DigitChar(n % 10)>>

RECURSIVE Pow10(_)
Pow10(p) == IF p = 0 THEN 1 ELSE 10 * Pow10(p - 1)

\* str(Decimal) of coefficient c >= 0 with p fractional digits
str_decimal(c, p) ==
    IF p = 0 THEN NatStr(c)
    ELSE NatStr(c \div Pow10(p)) \o <<".">> \o Pad(c % Pow10(p), p)

\* str(date): YYYY-MM-DD
str_date(d) ==
    Pad(d \div 10000, 4) \o <<"-">> \o Pad((d \div 100) % 100, 2) \o <<"-">> \o Pad(d % 100, 2)

\* str(time): HH:MM:SS
str_time(t) ==
    Pad(t \div 10000, 2) \o <<":">> \o Pad((t \div 100) % 100, 2) \o <<":">> \o Pad(t % 100, 2)

\* str(datetime): the date and the time separated by a space
str_datetime(d, t) == str_date(d) \o <<" ">> \o str_time(t)

\* xmltodict: a value that is no dict, list or None is written as str(value)
str(x) ==
    CASE x.t = "str" -> x.v
      [] x.t = "int" -> NatStr(x.v)
      [] x.t = "decimal" -> str_decimal(x.v[1], x.v[2])
      [] x.t = "date" -> str_date(x.v)
      [] x.t = "datetime" -> str_datetime(x.v[1], x.v[2])

\* exclude_none=True: the fields left out of the dump
exclude_none_off(x) == FALSE

exclude_none(x) == IsNone(x)

\* model_dump(by_alias=True, exclude_none=True), python mode: a model becomes
\* the ordered dict of its fields in declaration order, scalars stay as they are
RECURSIVE model_dump(_)
RECURSIVE dump_fields(_, _, _)
dump_fields(fs, values, i) ==
    IF i > Len(fs) THEN <<>>
    ELSE (IF exclude_none(values[fs[i].n]) THEN <<>>
          ELSE <<[k |-> fs[i].n, v |-> model_dump(values[fs[i].n])]>>)
         \o dump_fields(fs, values, i + 1)

model_dump(x) ==
    CASE x.t = "obj" -> [t |-> "odict", v |-> dump_fields(FieldsOf(x.cls), x.v, 1)]
      [] x.t = "list" -> Lst([i \in 1..Len(x.v) |-> model_dump(x.v[i])])
      [] OTHER -> x

Element(tag, text, kids) == [tag |-> tag, text |-> text, kids |-> kids]

\* xmltodict.unparse, _emit(key, value): the elements one key of a dict yields.
\* A list yields one sibling per item (none when empty), None an empty element.
RECURSIVE emit(_, _)
RECURSIVE emit_items(_, _, _)
RECURSIVE emit_pairs(_, _)
emit_items(key, items, i) ==
    IF i > Len(items) THEN <<>> ELSE emit(key, items[i]) \o emit_items(key, items, i + 1)

emit_pairs(pairs, i) ==
    IF i > Len(pairs) THEN <<>> ELSE emit(pairs[i].k, pairs[i].v) \o emit_pairs(pairs, i + 1)

emit(key, value) ==
    CASE value.t = "list" -> emit_items(key, value.v, 1)
      [] value.t = "odict" -> <<Element(key, <<>>, emit_pairs(value.v, 1))>>
      [] value.t = "none" -> <<Element(key, <<>>, <<>>)>>
      [] OTHER -> <<Element(key, str(value), <<>>)>>

\* lines 60-69: the root dict with @xmlns, unparsed as a full document
unparse(audit_file_dict, pretty_print) ==
    [full_document |-> TRUE, encoding |-> "utf-8", pretty |-> pretty_print,
     xmlns |-> SAFT_PT_NAMESPACE, root |-> emit("AuditFile", audit_file_dict)[1]]

NoDocument ==
    [full_document |-> FALSE, encoding |-> "", pretty |-> FALSE, xmlns |-> "",
     root |-> Element("", <<>>, <<>>)]

\* line 24: isinstance(audit_file_data, AuditFile)
isinstance_AuditFile_duck(x) == TRUE

isinstance_AuditFile(x) == x.t = "obj" /\ x.cls = "AuditFile"

\* generate_saft_xml(audit_file_data, pretty_print): [raised, xml]
generate_saft_xml(audit_file_data, pretty_print) ==
    IF ~isinstance_AuditFile(audit_file_data)
    THEN [raised |-> "TypeError", xml |-> NoDocument]
    ELSE IF audit_file_data.t # "obj"           \* line 27: audit_file_data.Header
    THEN [raised |-> "AttributeError", xml |-> NoDocument]
    ELSE [raised |-> "none", xml |-> unparse(model_dump(audit_file_data), pretty_print)]

---------------------------------------------------------------------------
(* xsd_validator.py: validate_saft_xml.  The schema file SAFTPT1_04_01.xsd   *)
(* declares, for every type of the domain library, its fields as child       *)
(* elements in declaration order, without the persistence-only fields.       *)

PersistenceOnly == {"id", "owner_id"}

RECURSIVE DeclaredFrom(_, _)
DeclaredFrom(fs, i) ==
    IF i > Len(fs) THEN <<>>
    ELSE (IF fs[i].n \in PersistenceOnly THEN <<>> ELSE <<fs[i]>>) \o DeclaredFrom(fs, i + 1)

\* the child elements the schema declares for a type
XsdSequence(cls) == DeclaredFrom(FieldsOf(cls), 1)

IsTimeStr(q) ==
    /\ Len(q) = 8 /\ q[3] = ":" /\ q[6] = ":"
    /\ \A i \in {1, 2, 4, 5, 7, 8} : q[i] \in Digits

\* xs:dateTime: YYYY-MM-DDTHH:MM:SS
IsXsdDateTime(q) ==
    Len(q) = 19 /\ IsDateStr(SubSeq(q, 1, 10)) /\ q[11] = "T" /\ IsTimeStr(SubSeq(q, 12, 19))

\* xs:decimal
IsXsdDecimal(q) ==
    /\ Len(q) > 0 /\ Range(q) \subseteq (Digits \cup {"."})
    /\ Cardinality({i \in 1..Len(q) : q[i] = "."}) <= 1
    /\ q[1] # "." /\ q[Len(q)] # "."

\* the lexical space of a leaf element of the given field
XsdLexicalOk(f, text) ==
    CASE f.k = "datetime" -> IsXsdDateTime(text)
      [] f.k \in {"datespan", "date"} -> IsDateStr(text)
      [] f.k \in {"monetary", "decimalge0", "floatge0"} -> IsXsdDecimal(text)
      [] f.k \in {"intrange", "intge", "anyint", "strictint", "vat", "taxonomy"} -> IsNatStr(text)
      [] OTHER -> Len(text) > 0

\* the number of consecutive elements tagged `tag` from position i on
RECURSIVE Run(_, _, _)
Run(kids, tag, i) ==
    IF i <= Len(kids) /\ kids[i].tag = tag THEN 1 + Run(kids, tag, i + 1) ELSE 0

RECURSIVE XsdElementValid(_, _)
RECURSIVE XsdContentValid(_, _, _, _)
\* an element of the field f
XsdElementValid(f, e) ==
    IF f.k \in {"model", "listmodel"}
    THEN e.text = <<>> /\ XsdContentValid(e.kids, 1, XsdSequence(f.a), 1)
    ELSE e.kids = <<>> /\ XsdLexicalOk(f, e.text)

\* kids[i..] against the declarations decl[j..]: order, occurrences, content
XsdContentValid(kids, i, decl, j) ==
    IF j > Len(decl) THEN i > Len(kids)
    ELSE LET f == decl[j]
             n == Run(kids, f.n, i)
         IN /\ n >= (IF f.opt THEN 0 ELSE 1)
            /\ f.k # "listmodel" => n <= 1
            /\ \A m \in i..(i + n - 1) : XsdElementValid(f, kids[m])
            /\ XsdContentValid(kids, i + n, decl, j + 1)

\* xmlschema.validate(parsed_xml_doc)
XsdValid(doc) ==
    /\ doc.xmlns = SAFT_PT_NAMESPACE
    /\ doc.root.tag = "AuditFile"
    /\ XsdContentValid(doc.root.kids, 1, XsdSequence("AuditFile"), 1)

\* validate_saft_xml(xml_string, xsd_filepath) for a readable schema file and
\* well-formed XML: (True, []) or (False, the schema log's messages)
validate_saft_xml(xml_string) ==
    IF XsdValid(xml_string) THEN [is_valid |-> TRUE, errors |-> <<>>]
    ELSE [is_valid |-> FALSE, errors |-> <<"SCHEMAV">>]

\* An XML text: kind "doc" is well-formed (doc is its element tree), "malformed"
\* has unclosed tags, "empty" is '', "surrogate" is a str that utf-8 cannot
\* encode, "none" is a value that is no str.
Xml(kind, doc) == [kind |-> kind, doc |-> doc]

\* line 25, etree.parse(xsd_filepath): the exception raised, by what the path
\* names: no file, a file that is not well-formed XML, a value that is no path
etree_parse(xsd_filepath) ==
    CASE xsd_filepath = "missing" -> "OSError"
      [] xsd_filepath = "not_well_formed" -> "XMLSyntaxError"
      [] xsd_filepath = "not_a_path" -> "TypeError"
      [] OTHER -> "none"

\* line 26, etree.XMLSchema(xmlschema_doc): well-formed XML that is no schema
etree_XMLSchema(xsd_filepath) ==
    IF xsd_filepath = "not_a_schema" THEN "XMLSchemaParseError" ELSE "none"

\* lines 38-39, etree.fromstring(xml_string.encode('utf-8'))
etree_fromstring(xml_string) ==
    CASE xml_string.kind = "none" -> "AttributeError"
      [] xml_string.kind = "surrogate" -> "UnicodeEncodeError"
      [] xml_string.kind \in {"malformed", "empty"} -> "XMLSyntaxError"
      [] OTHER -> "none"

Returned(is_valid, errors) == [raised |-> "none", is_valid |-> is_valid, errors |-> errors]

\* lines 70-72: except Exception
outer_except_reraise(exc) == [raised |-> exc, is_valid |-> FALSE, errors |-> <<>>]

outer_except(exc) == Returned(FALSE, <<"Unexpected validation error">>)

\* lines 28-33: the handlers of the schema-loading try
load_schema_except(exc) ==
    CASE exc = "XMLSchemaParseError" -> Returned(FALSE, <<"XSD schema parse error">>)
      [] exc = "OSError" -> Returned(FALSE, <<"XSD file error">>)
      [] OTHER -> outer_except(exc)

\* lines 41-44: the handler of the XML-parsing try
parse_xml_except(exc) ==
    IF exc = "XMLSyntaxError" THEN Returned(FALSE, <<"Malformed XML">>)
    ELSE outer_except(exc)

\* lines 50-68: the schema check and its report
schema_check_unchecked(xml_string, log_empty) == Returned(TRUE, <<>>)

\* lines 57-61: the messages drawn from xmlschema.error_log after validate();
\* log_empty: the schema library rejected the document and logged nothing
error_messages(xml_string, log_empty) ==
    IF log_empty THEN <<>> ELSE validate_saft_xml(xml_string.doc).errors

schema_report_as_logged(is_valid, messages) == Returned(is_valid, messages)

\* lines 52-68: what is returned after xmlschema.validate
schema_report(is_valid, messages) ==
    IF is_valid THEN Returned(TRUE, <<>>)
    ELSE Returned(FALSE, IF messages = <<>> /\ ~is_valid
                         THEN <<"Unknown validation error">> ELSE messages)

schema_check(xml_string, log_empty) ==
    schema_report(XsdValid(xml_string.doc), error_messages(xml_string, log_empty))

---------------------------------------------------------------------------
(* Inputs of the construction attempts *)

Nif == <<"5", "0", "1", "2", "3", "4", "5", "6", "7">>
Acme == <<"A", "c", "m", "e">>
Lisboa == <<"L", "i", "s", "b", "o", "a">>
Zip == <<"1", "0", "0", "0">>
Version == <<"1", ".", "0", "4", "_", "0", "1">>
Eur == <<"E", "U", "R">>
Usd == <<"U", "S", "D">>
ProdId == <<"G", "e", "n", "/", "1">>

AddressArgs ==
    [AddressDetail |-> S(<<"R", "u", "a", " ", "1">>), City |-> S(Lisboa),
     PostalCode |-> S(Zip), Country |-> S(<<"P", "T">>)]

AddressClassOf(cls) ==
    IF cls = "SaftData_Header" THEN "SaftData_AddressStructure" ELSE "AddressStructure"

HeaderArgs(cls, start, end, currency) ==
    [AuditFileVersion |-> S(Version), CompanyID |-> S(Nif),
     TaxRegistrationNumber |-> I(501234567), TaxAccountingBasis |-> S(<<"F">>),
     CompanyName |-> S(Acme),
     CompanyAddress |-> ValidateModel(AddressClassOf(cls), AddressArgs).obj,
     FiscalYear |-> I(2023), StartDate |-> start, EndDate |-> end,
     CurrencyCode |-> S(currency), DateCreated |-> D(20231115),
     TaxEntity |-> S(Global), ProductCompanyTaxID |-> S(Nif),
     SoftwareCertificateNumber |-> I(1234), ProductID |-> S(ProdId),
     ProductVersion |-> S(<<"1">>)]

\* keyword arguments: `extra` overrides or adds to `base`; a key absent from
\* both is not passed at all
With(base, extra) ==
    [n \in DOMAIN base \cup DOMAIN extra |-> IF n \in DOMAIN extra THEN extra[n] ELSE base[n]]

\* a keyword argument that is not passed
Absent == [t |-> "absent"]

Maybe(name, x) == IF x.t = "absent" THEN EmptyFn ELSE [n \in {name} |-> x]

GLAccountArgs(category, code, taxonomy) ==
    With(With([AccountID |-> S(<<"1", "1">>), AccountDescription |-> S(Acme),
               OpeningDebitBalance |-> Dec(0, 2), OpeningCreditBalance |-> Dec(0, 2),
               ClosingDebitBalance |-> Dec(10000, 2), ClosingCreditBalance |-> Dec(0, 2),
               GroupingCategory |-> S(category)],
              Maybe("GroupingCode", code)),
         Maybe("TaxonomyCode", taxonomy))

TaxTableEntryArgs(percentage, amount) ==
    With(With([TaxType |-> S(<<"I", "V", "A">>), TaxCountryRegion |-> S(<<"P", "T">>),
               TaxCode |-> S(<<"N", "O", "R">>), Description |-> S(Acme)],
              Maybe("TaxPercentage", percentage)),
         Maybe("TaxAmount", amount))

HeaderClasses == {"Header", "SaftData_Header"}
GLAccountClasses == {"Account", "SaftData_GeneralLedgerAccount"}
TaxTableEntryClasses == {"TaxTableEntry", "SaftData_TaxTableEntry"}
TransactionClasses == {"Transaction", "SaftData_Transaction"}

StartDates == {D(20230101), D(19991231), S(<<"2", "0", "2", "3", "-", "0", "1", "-", "0", "1">>)}
EndDates == {D(20221231), D(20230101), D(20231231),
             S(<<"2", "0", "2", "2", "-", "1", "2", "-", "3", "1">>)}
Currencies == {Eur, Usd}
Categories == GroupingCategoryEnum \cup {<<"X", "X">>}
GroupingCodes == {Absent, NoneV, S(<<"1", "1">>), S(<<"1">>)}
TaxonomyCodes == {Absent, NoneV, I(1), I(0)}
Percentages == {Absent, NoneV, Dec(2300, 2), Dec(0, 0), Dec(-1, 0)}
Amounts == {Absent, NoneV, Dec(100, 2), Dec(0, 2), Dec(1, 3)}
PartyIDs == {Absent, NoneV, S(<<"C", "1">>), S(<<"S", "1">>)}

---------------------------------------------------------------------------
(* Domain type library: construction attempts *)

NoAttempt == [cls |-> "", args |-> EmptyFn, ok |-> FALSE, obj |-> NoneV, errs |-> {}]

Outcome(cls, data) ==
    LET r == ValidateModel(cls, data)
    IN [cls |-> cls, args |-> data, ok |-> r.ok,
        obj |-> IF r.ok THEN r.obj ELSE NoneV, errs |-> r.errs]

MpIdle ==
    [pc |-> "idle", data_rows |-> <<>>, mapping_profile |-> NoProfile,
     TargetModel |-> NoneCls, i |-> 0, model_dict_data |-> EmptyFn,
     appended |-> FALSE, populated_models |-> <<>>]
XvIdle ==
    [pc |-> "idle", xml_string |-> Xml("none", NoDocument), xsd_filepath |-> "",
     stages |-> <<>>, raised |-> "none", is_valid |-> FALSE, errors |-> <<>>]
\* a row of the user table: id and username
User(id, username) == [id |-> id, username |-> username]

\* what engine.generate_and_validate_saft_file returns: (xml_string, validation_errors)
HandOff(xml_string, validation_errors) ==
    [xml_string |-> xml_string, validation_errors |-> validation_errors]

Response(kind, status_code, body, errors) ==
    [kind |-> kind, status_code |-> status_code, body |-> body, errors |-> errors]

NoResponse == Response("none", 0, NoneV, <<>>)

NoHandOff == HandOff(NoneV, <<>>)

UiIdle ==
    [pc |-> "idle", user |-> User(0, <<>>), xsd |-> "", handed |-> NoHandOff,
     reached |-> FALSE, response |-> NoResponse]
\* an earlier call whose user's customers have not changed since: the user and
\* the Customer rows it returned
NoCall == [valid |-> FALSE, user |-> 0, Customer |-> <<>>, others_changed |-> FALSE]

AsmIdle ==
    [customers |-> <<>>, suppliers |-> <<>>, products |-> <<>>, accounts |-> <<>>,
     pc |-> "idle", current_user |-> User(0, <<>>), raised |-> "none", result |-> NoneV,
     prev |-> NoCall, before |-> NoCall]
\* the file at csv_file_path: none, one that cannot be decoded, or its data rows
CsvFile(kind, rows) == [kind |-> kind, rows |-> rows]

\* the file at mapping_profile_path: none, one that is no profile, or a profile
ProfileFile(kind, profile) == [kind |-> kind, profile |-> profile]

EngIdle ==
    [pc |-> "idle", get_session |-> "generator", db_initialized |-> FALSE,
     stored |-> <<>>, stored_before |-> <<>>,
     csv_file |-> CsvFile("missing", <<>>), profile_file |-> ProfileFile("missing", NoProfile),
     available_saft_models |-> EmptyFn, raised |-> "none", result |-> <<>>]
MaxThreads == 2

Threads == 1..MaxThreads

\* engine.py line 33: _db_initialized = False; no thread has called yet
DbiIdle ==
    [db_initialized |-> FALSE, pc |-> [t \in Threads |-> "idle"],
     executions |-> 0, succeeded |-> 0]

\* no request to a route of app/routes/mapping.py yet
NoRequest == [route |-> "none", user |-> 0, id |-> 0, outcome |-> "none"]

ProfIdle == [profiles |-> {}, next_id |-> 1, last |-> NoRequest]

\* the tables populate_demo_data fills, empty; calls counts the calls for the
\* demo user since the tables were created, raised is what the last one raised
DemoIdle ==
    [customers |-> {}, suppliers |-> {}, products |-> {}, accounts |-> {},
     calls |-> 0, raised |-> "none"]

\* a thread that has called nothing: the function it runs, its input, and the
\* locals of the call (i and populated_models of apply_mapping,
\* audit_file_dict of generate_saft_xml)
NoThreadCall ==
    [pc |-> "idle", fn |-> "none", input |-> NoneV, i |-> 0, populated_models |-> <<>>,
     audit_file_dict |-> NoneV, result |-> NoneV]

ThrIdle == [t \in Threads |-> NoThreadCall]

GenIdle ==
    [held |-> FALSE, arg |-> NoneV, before |-> NoneV, pristine |-> FALSE, calls |-> 0,
     pretty |-> FALSE, raised |-> "none", xml |-> NoDocument,
     prev_pretty |-> FALSE, prev_raised |-> "none", prev_xml |-> NoDocument,
     checked |-> FALSE, is_valid |-> FALSE, errors |-> <<>>]

\* cls(**args) where the construction succeeds; None stands for no instance
New(cls, args) ==
    LET made(r) == IF r.ok THEN r.obj ELSE NoneV IN made(ValidateModel(cls, args))

DebitLineArgs ==
    [RecordID |-> S(<<"1">>), AccountID |-> S(<<"1", "1">>),
     SystemEntryDate |-> DT(20230115, 103000), Description |-> S(Acme),
     DebitAmount |-> Dec(10000, 2)]

CreditLineArgs ==
    [RecordID |-> S(<<"2">>), AccountID |-> S(<<"2", "1">>),
     SystemEntryDate |-> DT(20230115, 103000), Description |-> S(Acme),
     CreditAmount |-> Dec(10000, 2)]

TransactionArgs ==
    [TransactionID |-> S(<<"2", "0", "2", "3", "-", "0", "1", "-", "1", "5", " ", "J", " ", "1">>),
     Period |-> I(1), TransactionDate |-> D(20230115), SourceID |-> S(<<"u">>),
     Description |-> S(Acme), DocArchivalNumber |-> S(<<"D", "1">>),
     TransactionType |-> S(<<"N">>), GLPostingDate |-> D(20230115),
     Lines |-> New("Lines", [DebitLine |-> Lst(<<New("DebitLine", DebitLineArgs)>>),
                             CreditLine |-> Lst(<<New("CreditLine", CreditLineArgs)>>)])]

ConstructHeader(cls, start, end, currency) ==
    /\ last' = Outcome(cls, HeaderArgs(cls, start, end, currency))
    /\ UNCHANGED <<mp, gen, xv, ui, asm, eng, dbi, prof, dem, thr>>

ConstructGLAccount(cls, category, code, taxonomy) ==
    /\ last' = Outcome(cls, GLAccountArgs(category, code, taxonomy))
    /\ UNCHANGED <<mp, gen, xv, ui, asm, eng, dbi, prof, dem, thr>>

ConstructTaxTableEntry(cls, percentage, amount) ==
    /\ last' = Outcome(cls, TaxTableEntryArgs(percentage, amount))
    /\ UNCHANGED <<mp, gen, xv, ui, asm, eng, dbi, prof, dem, thr>>

\* a Transaction of either library: the arguments of TransactionArgs (the
\* schema type holds a TransactionLines) and the two party ids
TransactionArgsOf(cls, customer, supplier) ==
    With(With(IF cls = "SaftData_Transaction"
              THEN [TransactionArgs EXCEPT !.Lines = New("SaftData_TransactionLines", EmptyFn)]
              ELSE TransactionArgs,
              Maybe("CustomerID", customer)),
         Maybe("SupplierID", supplier))

ConstructTransaction(cls, customer, supplier) ==
    /\ last' = Outcome(cls, TransactionArgsOf(cls, customer, supplier))
    /\ UNCHANGED <<mp, gen, xv, ui, asm, eng, dbi, prof, dem, thr>>

DomainInit ==
    /\ last = NoAttempt /\ mp = MpIdle /\ gen = GenIdle
    /\ xv = XvIdle /\ ui = UiIdle /\ asm = AsmIdle /\ eng = EngIdle
    /\ dbi = DbiIdle /\ prof = ProfIdle /\ dem = DemoIdle /\ thr = ThrIdle

DomainNext ==
    \/ \E cls \in HeaderClasses, start \in StartDates, end \in EndDates, cur \in Currencies :
         ConstructHeader(cls, start, end, cur)
    \/ \E cls \in GLAccountClasses, cat \in Categories, code \in GroupingCodes,
          tax \in TaxonomyCodes :
         ConstructGLAccount(cls, cat, code, tax)
    \/ \E cls \in TaxTableEntryClasses, p \in Percentages, a \in Amounts :
         ConstructTaxTableEntry(cls, p, a)
    \/ \E cls \in TransactionClasses, customer \in PartyIDs, supplier \in PartyIDs :
         ConstructTransaction(cls, customer, supplier)

SpecDomain == DomainInit /\ [][DomainNext]_vars

Constructed(classes) == last.ok /\ last.cls \in classes

Present(name) == ~IsNone(last.obj.v[name])

---------------------------------------------------------------------------
(* Mapping engine: one apply_mapping call, row by row *)

\* the registry: tests/test_mapping.py (Customer, Header), engine.py
\* (GeneralLedgerAccount is models.Account), and a type with a cross-field rule
available_models ==
    [n \in {"Customer", "Header", "GeneralLedgerAccount", "TaxTableEntry"} |->
        IF n = "GeneralLedgerAccount" THEN "Account" ELSE n]

\* tests/test_mapping.py sample_mapping_data_json, with a column for the
\* optional field Contact
CustomerMappings ==
    << Map("Client ID", <<"CustomerID">>), Map("Company Name", <<"CompanyName">>),
       Map("Address Line 1", <<"BillingAddress", "AddressDetail">>),
       Map("City", <<"BillingAddress", "City">>),
       Map("Zip", <<"BillingAddress", "PostalCode">>),
       Map("Country Code", <<"BillingAddress", "Country">>),
       Map("VAT Number", <<"CustomerTaxID">>), Map("Account Ref", <<"AccountID">>),
       Map("Contact Name", <<"Contact">>), Map("Self Bill", <<"SelfBillingIndicator">>) >>

TaxMappings ==
    << Map("Tax Type", <<"TaxType">>), Map("Region", <<"TaxCountryRegion">>),
       Map("Code", <<"TaxCode">>), Map("Description", <<"Description">>),
       Map("Percentage", <<"TaxPercentage">>), Map("Amount", <<"TaxAmount">>) >>

CustomerProfile == MappingProfile("Test Customer Mapping", "Customer", CustomerMappings)
UnknownProfile == MappingProfile("Test Customer Mapping", "NonExistentModel", CustomerMappings)
TaxProfile == MappingProfile("Tax Table Mapping", "TaxTableEntry", TaxMappings)

\* a profile in which the path of one column leads through the field another
\* column has filled: Contact, then Contact.Name
ConflictMappings ==
    << Map("Client ID", <<"CustomerID">>), Map("Company Name", <<"CompanyName">>),
       Map("Address Line 1", <<"BillingAddress", "AddressDetail">>),
       Map("City", <<"BillingAddress", "City">>),
       Map("Zip", <<"BillingAddress", "PostalCode">>),
       Map("Country Code", <<"BillingAddress", "Country">>),
       Map("Contact Name", <<"Contact">>), Map("Self Bill", <<"Contact", "Name">>),
       Map("VAT Number", <<"CustomerTaxID">>), Map("Account Ref", <<"AccountID">>) >>

ConflictProfile == MappingProfile("Conflicting Customer Mapping", "Customer", ConflictMappings)

Profiles == {CustomerProfile, UnknownProfile, TaxProfile, ConflictProfile}

\* a row of the source: column -> value
Row(pairs) ==
    [c \in {pairs[k][1] : k \in DOMAIN pairs} |->
        pairs[CHOOSE k \in DOMAIN pairs : pairs[k][1] = c][2]]

Without(row, col) == [c \in DOMAIN row \ {col} |-> row[c]]

CustomerRow(country) ==
    Row(<< <<"Client ID", S(<<"C", "1">>)>>, <<"Company Name", S(Acme)>>,
           <<"Address Line 1", S(<<"R", "u", "a", " ", "1">>)>>, <<"City", S(Lisboa)>>,
           <<"Zip", S(Zip)>>, <<"Country Code", S(country)>>,
           <<"VAT Number", S(<<"P", "T", "5">>)>>, <<"Account Ref", S(<<"A", "C", "C">>)>>,
           <<"Contact Name", S(<<"A", "n", "a">>)>>, <<"Self Bill", S(<<"1">>)>> >>)

TaxRow ==
    Row(<< <<"Tax Type", S(<<"I", "V", "A">>)>>, <<"Region", S(<<"P", "T">>)>>,
           <<"Code", S(<<"N", "O", "R">>)>>, <<"Description", S(Acme)>>,
           <<"Percentage", Dec(2300, 2)>>, <<"Amount", Dec(100, 2)>> >>)

Rows ==
    { CustomerRow(<<"P", "T">>),                          \* complete and valid
      CustomerRow(<<"I", "N", "V">>),                     \* invalid country code
      Without(CustomerRow(<<"P", "T">>), "VAT Number"),   \* lacks a mandatory column
      Without(CustomerRow(<<"P", "T">>), "Contact Name"), \* lacks an optional column
      Without(TaxRow, "Amount"),                          \* a valid tax table entry
      TaxRow }                                            \* both percentage and amount

MaxRows == 2

RowLists == UNION {[1..n -> Rows] : n \in 0..MaxRows}

\* lines 38-39
ApplyMappingCall(data_rows, mapping_profile) ==
    /\ mp.pc = "idle"
    /\ mp' = [pc |-> "lookup", data_rows |-> data_rows, mapping_profile |-> mapping_profile,
              TargetModel |-> registry_get(available_models, mapping_profile.target_model),
              i |-> 0, model_dict_data |-> EmptyFn, appended |-> FALSE,
              populated_models |-> <<>>]
    /\ UNCHANGED <<last, gen, xv, ui, asm, eng, dbi, prof, dem, thr>>

\* lines 41-43
RaiseValueError ==
    /\ mp.pc = "lookup"
    /\ not_TargetModel(mp.TargetModel)
    /\ mp' = [mp EXCEPT !.pc = "raised"]
    /\ UNCHANGED <<last, gen, xv, ui, asm, eng, dbi, prof, dem, thr>>

\* lines 45-84, one iteration of the loop over data_rows
ProcessRow ==
    /\ mp.pc \in {"lookup", "loop"}
    /\ mp.pc = "lookup" => ~not_TargetModel(mp.TargetModel)
    /\ mp.i < Len(mp.data_rows)
    /\ LET d == build_model_dict_data(mp.data_rows[mp.i + 1], mp.mapping_profile.mappings)
           after == append_instance(mp.populated_models, mp.TargetModel, d)
       IN mp' = [mp EXCEPT !.pc = "loop", !.i = mp.i + 1, !.model_dict_data = d,
                           !.appended = (Len(after) = Len(mp.populated_models) + 1),
                           !.populated_models = after]
    /\ UNCHANGED <<last, gen, xv, ui, asm, eng, dbi, prof, dem, thr>>

\* line 86
ReturnPopulatedModels ==
    /\ mp.pc \in {"lookup", "loop"}
    /\ mp.pc = "lookup" => ~not_TargetModel(mp.TargetModel)
    /\ mp.i = Len(mp.data_rows)
    /\ mp' = [mp EXCEPT !.pc = "done"]
    /\ UNCHANGED <<last, gen, xv, ui, asm, eng, dbi, prof, dem, thr>>

MappingInit ==
    /\ last = NoAttempt /\ mp = MpIdle /\ gen = GenIdle
    /\ xv = XvIdle /\ ui = UiIdle /\ asm = AsmIdle /\ eng = EngIdle
    /\ dbi = DbiIdle /\ prof = ProfIdle /\ dem = DemoIdle /\ thr = ThrIdle

MappingNext ==
    \/ \E data_rows \in RowLists, mapping_profile \in Profiles :
         ApplyMappingCall(data_rows, mapping_profile)
    \/ RaiseValueError
    \/ ProcessRow
    \/ ReturnPopulatedModels

SpecMapping == MappingInit /\ [][MappingNext]_vars

---------------------------------------------------------------------------
(* XML generator: an AuditFile is assembled from constructed entities (or    *)
(* something else is passed), generate_saft_xml is called on it, and the     *)
(* result is validated.                                                      *)

CustomerArgs(persisted) ==
    With([CustomerID |-> S(<<"C", "1">>), AccountID |-> S(<<"A", "C", "C">>),
          CustomerTaxID |-> S(<<"P", "T", "5">>), CompanyName |-> S(Acme),
          BillingAddress |-> New("CustomerAddressStructure", AddressArgs)],
         IF persisted THEN [id |-> I(1), owner_id |-> I(1)] ELSE EmptyFn)

JournalArgs ==
    [JournalID |-> S(<<"J", "1">>), Description |-> S(Acme),
     Transaction |-> Lst(<<New("Transaction", TransactionArgs)>>)]

\* engine.get_full_audit_data_for_xml: zero entries, zero totals, Journal=[]
ZeroEntries ==
    [NumberOfEntries |-> I(0), TotalDebit |-> Dec(0, 2), TotalCredit |-> Dec(0, 2)]

CustomerLists ==
    {Absent, Lst(<<>>), Lst(<<New("Customer", CustomerArgs(FALSE))>>),
     Lst(<<New("Customer", CustomerArgs(TRUE))>>)}

LedgerEntries ==
    {Absent, New("GeneralLedgerEntries", ZeroEntries),
     New("GeneralLedgerEntries", With(ZeroEntries, [Journal |-> Lst(<<>>)])),
     \* totals given with fewer than two fractional digits: Decimal('100'), Decimal('100.5')
     New("GeneralLedgerEntries",
         [NumberOfEntries |-> I(0), TotalDebit |-> Dec(100, 0), TotalCredit |-> Dec(1005, 1)]),
     New("GeneralLedgerEntries",
         [NumberOfEntries |-> I(1), TotalDebit |-> Dec(10000, 2),
          TotalCredit |-> Dec(10000, 2),
          Journal |-> Lst(<<New("Journal", JournalArgs)>>)])}

HeaderComments == {Absent, S(<<"h">>)}

AuditFileArgs(customers, entries, comment) ==
    With([Header |-> New("Header", With(HeaderArgs("Header", D(20230101), D(20231231), Eur),
                                        Maybe("HeaderComment", comment))),
          MasterFiles |-> New("MasterFiles", Maybe("Customer", customers))],
         Maybe("GeneralLedgerEntries", entries))

\* what a caller may pass that is no AuditFile instance
OtherInputs ==
    {NoneV, S(<<"x">>), Dict(AuditFileArgs(Absent, Absent, Absent)),
     New("MasterFiles", EmptyFn)}

MaxCalls == 2

\* the text assigned to Header.FiscalYear by tests/test_engine.py, shortened
InvalidYear == S(<<"I", "N", "V">>)

\* AuditFile(Header=..., MasterFiles=..., GeneralLedgerEntries=...)
AssembleAuditFile(customers, entries, comment) ==
    /\ ~gen.held
    /\ LET r == ValidateModel("AuditFile", AuditFileArgs(customers, entries, comment))
       IN /\ r.ok
          /\ gen' = [gen EXCEPT !.held = TRUE, !.arg = r.obj, !.pristine = TRUE]
    /\ UNCHANGED <<last, mp, xv, ui, asm, eng, dbi, prof, dem, thr>>

HoldOther(x) ==
    /\ ~gen.held
    /\ gen' = [gen EXCEPT !.held = TRUE, !.arg = x]
    /\ UNCHANGED <<last, mp, xv, ui, asm, eng, dbi, prof, dem, thr>>

\* tests/test_xsd_validator.py: audit_file_instance.Header.CompanyName = None
AssignCompanyNameNone ==
    /\ gen.held /\ gen.pristine
    /\ gen' = [GenIdle EXCEPT !.held = TRUE,
                              !.arg = [gen.arg EXCEPT !.v["Header"].v["CompanyName"] = NoneV]]
    /\ UNCHANGED <<last, mp, xv, ui, asm, eng, dbi, prof, dem, thr>>

\* tests/test_engine.py: audit_file_instance.Header.FiscalYear = "INVALID_YEAR_FOR_XSD"
AssignFiscalYearInvalid ==
    /\ gen.held /\ gen.pristine
    /\ gen' = [GenIdle EXCEPT !.held = TRUE,
                              !.arg = [gen.arg EXCEPT !.v["Header"].v["FiscalYear"] = InvalidYear]]
    /\ UNCHANGED <<last, mp, xv, ui, asm, eng, dbi, prof, dem, thr>>

\* what the call leaves in the instance it was given (it assigns nothing)
audit_file_after_strip(audit_file_data) ==
    IF isinstance_AuditFile(audit_file_data)
    THEN [audit_file_data EXCEPT !.v["MasterFiles"] = NoneV]
    ELSE audit_file_data

audit_file_after(audit_file_data) == audit_file_data

GenerateSaftXml(pretty_print) ==
    /\ gen.held /\ gen.calls < MaxCalls
    /\ LET r == generate_saft_xml(gen.arg, pretty_print)
       IN gen' = [gen EXCEPT !.before = gen.arg, !.arg = audit_file_after(gen.arg),
                             !.calls = gen.calls + 1, !.pretty = pretty_print,
                             !.raised = r.raised, !.xml = r.xml,
                             !.prev_pretty = gen.pretty, !.prev_raised = gen.raised,
                             !.prev_xml = gen.xml,
                             !.checked = FALSE, !.is_valid = FALSE, !.errors = <<>>]
    /\ UNCHANGED <<last, mp, xv, ui, asm, eng, dbi, prof, dem, thr>>

ValidateSaftXml ==
    /\ gen.calls >= 1 /\ gen.raised = "none" /\ ~gen.checked
    /\ LET r == validate_saft_xml(gen.xml)
       IN gen' = [gen EXCEPT !.checked = TRUE, !.is_valid = r.is_valid, !.errors = r.errors]
    /\ UNCHANGED <<last, mp, xv, ui, asm, eng, dbi, prof, dem, thr>>

GenInit ==
    /\ last = NoAttempt /\ mp = MpIdle /\ gen = GenIdle
    /\ xv = XvIdle /\ ui = UiIdle /\ asm = AsmIdle /\ eng = EngIdle
    /\ dbi = DbiIdle /\ prof = ProfIdle /\ dem = DemoIdle /\ thr = ThrIdle

GenNext ==
    \/ \E customers \in CustomerLists, entries \in LedgerEntries, comment \in HeaderComments :
         AssembleAuditFile(customers, entries, comment)
    \/ \E x \in OtherInputs : HoldOther(x)
    \/ AssignCompanyNameNone
    \/ AssignFiscalYearInvalid
    \/ \E pretty_print \in BOOLEAN : GenerateSaftXml(pretty_print)
    \/ ValidateSaftXml

SpecGen == GenInit /\ [][GenNext]_vars

---------------------------------------------------------------------------
(* Schema validator: one validate_saft_xml call, stage by stage.  pc names   *)
(* the stage about to run; stages lists the stages entered so far.          *)

\* what xsd_filepath may name: the SAF-T schema, no file, a file that is not
\* well-formed XML, well-formed XML that is no schema, a value that is no path
XsdFiles == {"ok", "missing", "not_well_formed", "not_a_schema", "not_a_path"}

AuditFiles ==
    LET built == {New("AuditFile", AuditFileArgs(c, e, h)) :
                    c \in CustomerLists, e \in LedgerEntries, h \in HeaderComments}
    IN built \cup {[a EXCEPT !.v["Header"].v["FiscalYear"] = InvalidYear] : a \in built}

XmlStrings ==
    {Xml("doc", generate_saft_xml(a, FALSE).xml) : a \in AuditFiles}
    \cup {Xml(k, NoDocument) : k \in {"malformed", "empty", "surrogate", "none"}}

ValidateSaftXmlCall(xml_string, xsd_filepath) ==
    /\ xv.pc \in {"idle", "REPORT"}
    /\ xv' = [XvIdle EXCEPT !.pc = "LOAD_SCHEMA", !.xml_string = xml_string,
                            !.xsd_filepath = xsd_filepath]
    /\ UNCHANGED <<last, mp, gen, ui, asm, eng, dbi, prof, dem, thr>>

\* the call ends with r: a return (REPORT) or an exception leaving the call
EndCall(stage, r) ==
    [xv EXCEPT !.pc = IF r.raised = "none" THEN "REPORT" ELSE "raised",
               !.stages = xv.stages \o (IF r.raised = "none" THEN <<stage, "REPORT">>
                                        ELSE <<stage>>),
               !.raised = r.raised, !.is_valid = r.is_valid, !.errors = r.errors]

\* lines 24-33
LoadSchema ==
    /\ xv.pc = "LOAD_SCHEMA"
    /\ LET parsed == etree_parse(xv.xsd_filepath)
           exc == IF parsed # "none" THEN parsed ELSE etree_XMLSchema(xv.xsd_filepath)
       IN xv' = IF exc = "none"
                THEN [xv EXCEPT !.pc = "PARSE_XML", !.stages = xv.stages \o <<"LOAD_SCHEMA">>]
                ELSE EndCall("LOAD_SCHEMA", load_schema_except(exc))
    /\ UNCHANGED <<last, mp, gen, ui, asm, eng, dbi, prof, dem, thr>>

\* lines 37-44
ParseXml ==
    /\ xv.pc = "PARSE_XML"
    /\ LET exc == etree_fromstring(xv.xml_string)
       IN xv' = IF exc = "none"
                THEN [xv EXCEPT !.pc = "SCHEMA_CHECK", !.stages = xv.stages \o <<"PARSE_XML">>]
                ELSE EndCall("PARSE_XML", parse_xml_except(exc))
    /\ UNCHANGED <<last, mp, gen, ui, asm, eng, dbi, prof, dem, thr>>

\* lines 50-68
SchemaCheck(log_empty) ==
    /\ xv.pc = "SCHEMA_CHECK"
    /\ xv' = EndCall("SCHEMA_CHECK", schema_check(xv.xml_string, log_empty))
    /\ UNCHANGED <<last, mp, gen, ui, asm, eng, dbi, prof, dem, thr>>

ValidatorInit ==
    /\ last = NoAttempt /\ mp = MpIdle /\ gen = GenIdle
    /\ xv = XvIdle /\ ui = UiIdle /\ asm = AsmIdle /\ eng = EngIdle
    /\ dbi = DbiIdle /\ prof = ProfIdle /\ dem = DemoIdle /\ thr = ThrIdle

ValidatorNext ==
    \/ \E xml_string \in XmlStrings, xsd_filepath \in XsdFiles :
         ValidateSaftXmlCall(xml_string, xsd_filepath)
    \/ LoadSchema
    \/ ParseXml
    \/ \E log_empty \in BOOLEAN : SchemaCheck(log_empty)

SpecValidator == ValidatorInit /\ [][ValidatorNext]_vars

---------------------------------------------------------------------------
(* Audit assembly: engine.get_full_audit_data_for_xml over the data store.  *)
(* asm holds the tables (rows in primary-key order), the last call and its  *)
(* result, and what the call before it returned for its user.               *)

\* core/config.py
DEMO_USER_USERNAME == <<"d", "e", "m", "o", "_", "u", "s", "e", "r">>

Users == {User(1, <<"a", "n", "a">>), User(2, <<"r", "u", "i">>), User(3, DEMO_USER_USERNAME)}

\* Customer.owner_id, a foreign key to user.id; the demo user owns no customer
\* here, the call for it ends before the query
Owners == {I(1), I(2)}

\* the customer table's primary keys run from 1 to MaxCustomers
MaxCustomers == 2

CustomerRecord(id, owner_id) ==
    New("Customer", With(CustomerArgs(FALSE),
                         [id |-> I(id), CustomerID |-> S(<<"C", DigitChar(id)>>),
                          owner_id |-> owner_id]))

SupplierRecord ==
    New("Supplier", [id |-> I(1), SupplierID |-> S(<<"S", "1">>),
                     AccountID |-> S(<<"2", "2", "1">>), SupplierTaxID |-> S(Nif),
                     CompanyName |-> S(Acme),
                     BillingAddress |-> New("AddressStructure", AddressArgs)])

ProductRecord ==
    New("Product", [id |-> I(1), ProductType |-> S(<<"P">>), ProductCode |-> S(<<"P", "1">>),
                    ProductDescription |-> S(Acme), ProductNumberCode |-> S(<<"P", "1">>)])

AccountRecord ==
    New("Account", With(GLAccountArgs(<<"G", "M">>, S(<<"1", "1">>), I(1)), [id |-> I(1)]))

MasterTables == {"suppliers", "products", "accounts"}

RecordOf(table) ==
    CASE table = "suppliers" -> SupplierRecord
      [] table = "products" -> ProductRecord
      [] table = "accounts" -> AccountRecord

\* lines 245-263: the keyword arguments of Header(...)
header_args(current_user) ==
    LET demo == current_user.username = DEMO_USER_USERNAME
    IN With(HeaderArgs("Header", D(20230101), D(20231231), Eur),
            [CompanyID |-> IF demo THEN S(<<"D", "E", "M", "O", "0", "0", "0", "0", "1">>)
                           ELSE S(<<"9", "9", "9", "9", "9", "9", "9", "9", "0">>),
             TaxRegistrationNumber |-> IF demo THEN I(999000001) ELSE I(999999990),
             CompanyName |-> IF demo THEN S(<<"D", "e", "m", "o">>)
                             ELSE S(current_user.username \o <<"'", "s">>),
             HeaderComment |-> S(<<"f", "o", "r", " ">> \o current_user.username),
             Telephone |-> S(<<"+", "3", "5", "1">>), Fax |-> S(<<"+", "3", "5", "1">>),
             Email |-> S(current_user.username \o <<"@", "x">>),
             Website |-> S(<<"w", "w", "w">>)])

\* lines 266-267: select(Customer).where(Customer.owner_id == current_user.id)
select_customers_unfiltered(customers, current_user) == customers

select_customers(customers, current_user) ==
    SelectSeq(customers, LAMBDA c : c.v["owner_id"] = I(current_user.id))

\* lines 278-281: `rows if rows else None`
rows_or_None_keep(rows) == Lst(rows)

rows_or_None(rows) == IF rows # <<>> THEN Lst(rows) ELSE NoneV

\* lines 236-293: [raised, value]; a construction that fails raises ValidationError
get_full_audit_data_for_xml(db_session, current_user) ==
    LET customers == select_customers(db_session.customers, current_user)
        suppliers == db_session.suppliers
        products == db_session.products
        gl_accounts_db == db_session.accounts
        ValidationError == [raised |-> "ValidationError", value |-> NoneV]
        \* line 293
        return(audit_file_instance) ==
            IF audit_file_instance.ok
            THEN [raised |-> "none", value |-> audit_file_instance.obj]
            ELSE ValidationError
        \* lines 283-291
        assemble(header, master_files, general_ledger_entries) ==
            IF header.ok /\ master_files.ok /\ general_ledger_entries.ok
            THEN return(ValidateModel("AuditFile",
                                      [Header |-> header.obj, MasterFiles |-> master_files.obj,
                                       GeneralLedgerEntries |-> general_ledger_entries.obj]))
            ELSE ValidationError
        \* lines 245-263 and 277-287
        build(accounts_model) ==
            IF accounts_model.ok
            THEN assemble(ValidateModel("Header", header_args(current_user)),
                          ValidateModel("MasterFiles",
                                        [Customer |-> rows_or_None(customers),
                                         Supplier |-> rows_or_None(suppliers),
                                         Product |-> rows_or_None(products),
                                         GeneralLedgerAccounts |-> accounts_model.obj]),
                          ValidateModel("GeneralLedgerEntries",
                                        With(ZeroEntries, [Journal |-> Lst(<<>>)])))
            ELSE ValidationError
    \* lines 273-276
    IN build(IF gl_accounts_db # <<>>
             THEN ValidateModel("GeneralLedgerAccounts",
                                [TaxonomyReference |-> S(<<"S">>),
                                 Account |-> Lst(gl_accounts_db)])
             ELSE [ok |-> TRUE, obj |-> NoneV, errs |-> {}])

\* the rows of a master-file category of an AuditFile; None counts as no rows
CategoryRows(audit_file, category) ==
    LET x == audit_file.v["MasterFiles"].v[category]
    IN IF IsNone(x) THEN <<>> ELSE x.v

\* a change of the customer table: the result at hand is of the past, and the
\* earlier call's user either has other rows now or saw only others' rows change
CustomersChanged(customers, owner_id) ==
    [asm EXCEPT !.customers = customers, !.pc = "idle", !.result = NoneV,
                !.raised = "none", !.before = NoCall,
                !.prev = IF owner_id = I(asm.prev.user) THEN NoCall
                         ELSE [asm.prev EXCEPT !.others_changed = asm.prev.valid]]

NextId == IF asm.customers = <<>> THEN 1 ELSE asm.customers[Len(asm.customers)].v["id"].v + 1

InsertCustomer(owner_id) ==
    /\ NextId <= MaxCustomers
    /\ asm' = CustomersChanged(Append(asm.customers, CustomerRecord(NextId, owner_id)), owner_id)
    /\ UNCHANGED <<last, mp, gen, xv, ui, eng, dbi, prof, dem, thr>>

DeleteCustomer(i) ==
    /\ i \in 1..Len(asm.customers)
    /\ asm' = CustomersChanged(SubSeq(asm.customers, 1, i - 1)
                                  \o SubSeq(asm.customers, i + 1, Len(asm.customers)),
                               asm.customers[i].v["owner_id"])
    /\ UNCHANGED <<last, mp, gen, xv, ui, eng, dbi, prof, dem, thr>>

InsertMasterData(table) ==
    /\ asm[table] = <<>>
    /\ asm' = [asm EXCEPT ![table] = <<RecordOf(table)>>, !.pc = "idle", !.result = NoneV,
                          !.raised = "none", !.before = NoCall]
    /\ UNCHANGED <<last, mp, gen, xv, ui, eng, dbi, prof, dem, thr>>

GetFullAuditDataForXml(current_user) ==
    /\ LET after(r) ==
               [asm EXCEPT
                  !.pc = IF r.raised = "none" THEN "returned" ELSE "raised",
                  !.current_user = current_user, !.raised = r.raised, !.result = r.value,
                  !.before = IF asm.prev.user = current_user.id THEN asm.prev ELSE NoCall,
                  !.prev = IF r.raised = "none"
                           THEN [valid |-> TRUE, user |-> current_user.id,
                                 Customer |-> CategoryRows(r.value, "Customer"),
                                 others_changed |-> FALSE]
                           ELSE NoCall]
       IN asm' = after(get_full_audit_data_for_xml(asm, current_user))
    /\ UNCHANGED <<last, mp, gen, xv, ui, eng, dbi, prof, dem, thr>>

AssemblyInit ==
    /\ last = NoAttempt /\ mp = MpIdle /\ gen = GenIdle
    /\ xv = XvIdle /\ ui = UiIdle /\ asm = AsmIdle /\ eng = EngIdle
    /\ dbi = DbiIdle /\ prof = ProfIdle /\ dem = DemoIdle /\ thr = ThrIdle

AssemblyNext ==
    \/ \E owner_id \in Owners : InsertCustomer(owner_id)
    \/ \E i \in 1..MaxCustomers : DeleteCustomer(i)
    \/ \E table \in MasterTables : InsertMasterData(table)
    \/ \E current_user \in Users : GetFullAuditDataForXml(current_user)

SpecAssembly == AssemblyInit /\ [][AssemblyNext]_vars

---------------------------------------------------------------------------
(* HTTP handler: routers/ui.py generate_saft_action over the data store.    *)

\* xsd_validator.validate_saft_xml(xml_string, xsd_filepath), all stages in one
validate_saft_xml_at(xml_string, xsd_filepath) ==
    LET parsed == etree_parse(xsd_filepath)
        loading == IF parsed # "none" THEN parsed ELSE etree_XMLSchema(xsd_filepath)
        parsing == etree_fromstring(xml_string)
    IN IF loading # "none" THEN load_schema_except(loading)
       ELSE IF parsing # "none" THEN parse_xml_except(parsing)
       ELSE schema_check(xml_string, FALSE)

\* engine.generate_and_validate_saft_file: the XML when the validator accepts
\* it, otherwise no XML and the validator's (or the generator's) errors
generate_and_validate_saft_file(audit_file_data, xsd_path) ==
    LET validated(xml_string, r) ==
            IF r.is_valid THEN HandOff(xml_string, <<>>) ELSE HandOff(NoneV, r.errors)
        written(xml_string) == validated(xml_string, validate_saft_xml_at(xml_string, xsd_path))
        generated(g) ==
            IF g.raised # "none" THEN HandOff(NoneV, <<"XML generation error">>)
            ELSE written(Xml("doc", g.xml))
    IN generated(generate_saft_xml(audit_file_data, TRUE))

\* the schema files the handler may find at XSD_FILE_PATH (a str path)
HandlerXsdFiles == XsdFiles \ {"not_a_path"}

\* lines 56-70: XSD_FILE_PATH.exists()
XSD_FILE_PATH_exists(xsd) == xsd # "missing"

\* `if xml_string`: None and '' are false
truthy(xml_string) == xml_string # NoneV /\ xml_string.kind # "empty"

\* lines 123-135
respond_negated(xml_string, validation_errors) ==
    IF ~(truthy(xml_string) /\ validation_errors = <<>>)
    THEN Response("StreamingResponse", 200, xml_string, <<>>)
    ELSE Response("error.html", 200, NoneV, validation_errors)

respond(xml_string, validation_errors) ==
    IF truthy(xml_string) /\ validation_errors = <<>>
    THEN Response("StreamingResponse", 200, xml_string, <<>>)
    ELSE Response("error.html", 200, NoneV,
                  IF validation_errors # <<>> THEN validation_errors
                  ELSE <<"Unknown validation error.">>)

\* lines 139-145: except Exception
respond_unexpected(exc) ==
    Response("error.html", 200, NoneV, <<"An unexpected server error occurred">>)

\* lines 100-145: [handed, reached, response]
generate_saft_action(db, demo_user_context, xsd) ==
    LET \* lines 123-135
        answer(handed) ==
            [handed |-> handed, reached |-> TRUE,
             response |-> respond(handed.xml_string, handed.validation_errors)]
        \* lines 118-121
        generate(audit_file_data) ==
            IF audit_file_data.raised # "none"
            THEN [handed |-> NoHandOff, reached |-> FALSE,
                  response |-> respond_unexpected(audit_file_data.raised)]
            ELSE answer(generate_and_validate_saft_file(audit_file_data.value, xsd))
    IN IF ~XSD_FILE_PATH_exists(xsd)
       THEN [handed |-> NoHandOff, reached |-> FALSE,
             response |-> Response("HTTPException", 500, NoneV, <<>>)]
       ELSE generate(get_full_audit_data_for_xml(db, demo_user_context))

GenerateSaftAction(demo_user_context, xsd) ==
    /\ LET after(r) ==
               [pc |-> "responded", user |-> demo_user_context, xsd |-> xsd,
                handed |-> r.handed, reached |-> r.reached, response |-> r.response]
       IN ui' = after(generate_saft_action(asm, demo_user_context, xsd))
    /\ UNCHANGED <<last, mp, gen, xv, asm, eng, dbi, prof, dem, thr>>

HandlerInit ==
    /\ last = NoAttempt /\ mp = MpIdle /\ gen = GenIdle
    /\ xv = XvIdle /\ ui = UiIdle /\ asm = AsmIdle /\ eng = EngIdle
    /\ dbi = DbiIdle /\ prof = ProfIdle /\ dem = DemoIdle /\ thr = ThrIdle

HandlerNext ==
    \/ \E owner_id \in Owners : InsertCustomer(owner_id)
    \/ \E i \in 1..MaxCustomers : DeleteCustomer(i)
    \/ \E table \in MasterTables : InsertMasterData(table)
    \/ \E demo_user_context \in Users, xsd \in HandlerXsdFiles :
         GenerateSaftAction(demo_user_context, xsd)

SpecHandler == HandlerInit /\ [][HandlerNext]_vars

---------------------------------------------------------------------------
(* Engine: engine.process_and_store_file.  eng holds the module flag         *)
(* _db_initialized, the rows of the customer table, the last call, and what *)
(* database.get_session is: the generator function the module defines or   *)
(* the generator function the tests put in its place; `with` rejects both.  *)

RECURSIVE apply_rows(_, _, _, _, _)
RECURSIVE apply_rows_until_failure(_, _, _, _, _)

\* a loop that ends at the first row that yields no instance
apply_rows_until_failure(data_rows, mappings, TargetModel, i, populated_models) ==
    IF i > Len(data_rows) THEN populated_models
    ELSE IF ~try_model_validate(TargetModel, build_model_dict_data(data_rows[i], mappings)).ok
    THEN populated_models
    ELSE apply_rows_until_failure(data_rows, mappings, TargetModel, i + 1,
                                  append_instance(populated_models, TargetModel,
                                      build_model_dict_data(data_rows[i], mappings)))

\* mapping.apply_mapping, all rows: [raised, populated_models]
apply_rows(data_rows, mappings, TargetModel, i, populated_models) ==
    IF i > Len(data_rows) THEN populated_models
    ELSE apply_rows(data_rows, mappings, TargetModel, i + 1,
                    append_instance(populated_models, TargetModel,
                                    build_model_dict_data(data_rows[i], mappings)))

apply_mapping(data_rows, mapping_profile, registry) ==
    LET TargetModel == registry_get(registry, mapping_profile.target_model)
    IN IF not_TargetModel(TargetModel)
       THEN [raised |-> "ValueError", populated_models |-> <<>>]
       ELSE [raised |-> "none",
             populated_models |-> apply_rows(data_rows, mapping_profile.mappings,
                                             TargetModel, 1, <<>>)]

\* tests/test_engine.py test_saft_sqlmodel_registry
saft_sqlmodel_registry ==
    [n \in {"Customer", "Supplier", "Product", "GeneralLedgerAccount"} |->
        IF n = "GeneralLedgerAccount" THEN "Account" ELSE n]

\* a registry of table models, and one that also names models that are no tables
Registries == {saft_sqlmodel_registry, available_models}

\* issubclass(TargetModelClass, SQLModel)
issubclass_SQLModel(cls) == cls \in {"Customer", "Supplier", "Account", "Product", "User"}

\* data rows of the CSV files
CsvRows == {CustomerRow(<<"P", "T">>), CustomerRow(<<"I", "N", "V">>)}

CsvFiles ==
    {CsvFile("missing", <<>>), CsvFile("undecodable", <<>>)}
    \cup {CsvFile("rows", rows) : rows \in UNION {[1..n -> CsvRows] : n \in 0..MaxRows}}

\* uploader.read_csv_file: [raised, rows]
read_csv_file(file) ==
    CASE file.kind = "missing" -> [raised |-> "FileNotFoundError", rows |-> <<>>]
      [] file.kind = "undecodable" -> [raised |-> "ValueError", rows |-> <<>>]
      [] OTHER -> [raised |-> "none", rows |-> file.rows]

\* the files a call may name as its mapping profile
ProfileFiles ==
    {ProfileFile("missing", NoProfile), ProfileFile("invalid", NoProfile)}
    \cup {ProfileFile("profile", p) : p \in Profiles}

\* mapping.load_mapping_profile: [raised, profile]
load_mapping_profile(file) ==
    CASE file.kind = "missing" -> [raised |-> "FileNotFoundError", profile |-> NoProfile]
      [] file.kind = "invalid" -> [raised |-> "ValueError", profile |-> NoProfile]
      [] OTHER -> [raised |-> "none", profile |-> file.profile]

\* Customer.CustomerID is unique: the commit fails when a key repeats
CustomerIDs(rows) == {rows[i].v["CustomerID"] : i \in 1..Len(rows)}

commit_ok(stored, added) ==
    /\ Cardinality(CustomerIDs(added)) = Len(added)
    /\ CustomerIDs(added) \cap CustomerIDs(stored) = {}

Outcome_(raised, result, stored) == [raised |-> raised, result |-> result, stored |-> stored]

\* database.get_session and the override of tests/test_engine.py are generator
\* functions, neither is wrapped by contextlib.contextmanager: what they return
\* has no __enter__, and the with statement of line 109 raises TypeError
supports_with(get_session) == get_session \notin {"generator", "override_generator"}

\* lines 127-130: the commit raised, the session is rolled back
commit_failed(stored, transformed_models) == Outcome_("none", <<>>, stored)

\* lines 110-126: every instance is added, then one commit
commit_batch(stored, transformed_models) ==
    IF commit_ok(stored, transformed_models)
    THEN Outcome_("none", transformed_models, stored \o transformed_models)
    ELSE commit_failed(stored, transformed_models)

\* lines 135-143: the three handlers of the outer try
engine_except(exc, stored) == Outcome_("none", <<>>, stored)

\* lines 36-43 and database.create_db_and_tables, which re-raises
ensure_db_initialized(db_initialized, db_available) ==
    IF db_initialized THEN [raised |-> "none", db_initialized |-> TRUE]
    ELSE IF db_available THEN [raised |-> "none", db_initialized |-> TRUE]
    ELSE [raised |-> "OperationalError", db_initialized |-> FALSE]

\* lines 72-147, after ensure_db_initialized: [raised, result, stored]
process_and_store(csv_file, profile_file, available_saft_models, session, stored) ==
    LET csv == read_csv_file(csv_file)
        loaded == load_mapping_profile(profile_file)
        TargetModelClass == registry_get(available_saft_models, loaded.profile.target_model)
        \* lines 98-133, given what apply_mapping did
        store(mapped) ==
            IF mapped.raised # "none" THEN engine_except(mapped.raised, stored)
            ELSE IF mapped.populated_models = <<>> THEN Outcome_("none", <<>>, stored)
            ELSE IF ~supports_with(session) THEN engine_except("TypeError", stored)
            ELSE commit_batch(stored, mapped.populated_models)
    IN IF csv.raised # "none" THEN engine_except(csv.raised, stored)
       ELSE IF csv.rows = <<>> THEN Outcome_("none", <<>>, stored)
       ELSE IF loaded.raised # "none" THEN engine_except(loaded.raised, stored)
       ELSE IF not_TargetModel(TargetModelClass) THEN Outcome_("none", <<>>, stored)
       ELSE IF ~issubclass_SQLModel(TargetModelClass) THEN Outcome_("none", <<>>, stored)
       ELSE store(apply_mapping(csv.rows, loaded.profile, available_saft_models))

\* lines 46-147
process_and_store_file(csv_file, profile_file, available_saft_models, session, db_initialized, db_available, stored) ==
    LET init == ensure_db_initialized(db_initialized, db_available)
        ended(r) == [raised |-> r.raised, result |-> r.result, stored |-> r.stored,
                     db_initialized |-> init.db_initialized]
    IN IF init.raised # "none"
       THEN ended(Outcome_(init.raised, <<>>, stored))
       ELSE ended(process_and_store(csv_file, profile_file, available_saft_models, session,
                                    stored))

ProcessAndStoreFile(csv_file, profile_file, available_saft_models, db_available) ==
    /\ eng.db_initialized => db_available
    /\ LET after(r) ==
               [pc |-> IF r.raised = "none" THEN "returned" ELSE "raised",
                get_session |-> eng.get_session,
                db_initialized |-> r.db_initialized, stored |-> r.stored,
                stored_before |-> eng.stored,
                csv_file |-> csv_file, profile_file |-> profile_file,
                available_saft_models |-> available_saft_models,
                raised |-> r.raised, result |-> r.result]
       IN eng' = after(process_and_store_file(csv_file, profile_file, available_saft_models,
                                              eng.get_session, eng.db_initialized,
                                              db_available, eng.stored))
    /\ UNCHANGED <<last, mp, gen, xv, ui, asm, dbi, prof, dem, thr>>

\* tests/test_engine.py setUpClass: database.get_session is replaced by
\* override_get_session_for_engine_tests
PatchGetSession ==
    /\ eng.get_session = "generator"
    /\ eng' = [eng EXCEPT !.get_session = "override_generator"]
    /\ UNCHANGED <<last, mp, gen, xv, ui, asm, dbi, prof, dem, thr>>

\* tests/test_engine.py setUp: the tables are dropped and created again, and
\* engine._db_initialized is reset
DropAll ==
    /\ eng.pc # "idle"
    /\ eng' = [EngIdle EXCEPT !.get_session = eng.get_session]
    /\ UNCHANGED <<last, mp, gen, xv, ui, asm, dbi, prof, dem, thr>>

EngineInit ==
    /\ last = NoAttempt /\ mp = MpIdle /\ gen = GenIdle
    /\ xv = XvIdle /\ ui = UiIdle /\ asm = AsmIdle /\ eng = EngIdle
    /\ dbi = DbiIdle /\ prof = ProfIdle /\ dem = DemoIdle /\ thr = ThrIdle

EngineNext ==
    \/ \E csv_file \in CsvFiles, profile_file \in ProfileFiles,
          available_saft_models \in Registries, db_available \in BOOLEAN :
         ProcessAndStoreFile(csv_file, profile_file, available_saft_models, db_available)
    \/ PatchGetSession
    \/ DropAll

SpecEngine == EngineInit /\ [][EngineNext]_vars

---------------------------------------------------------------------------
(* Engine: ensure_db_initialized called from several threads.  pc[t] is the  *)
(* line of engine.py thread t is about to execute; no lock is taken.         *)

MaxExecutions == 3

\* line 36: thread t calls ensure_db_initialized
EnsureDbInitializedCall(t) ==
    /\ dbi.pc[t] \in {"idle", "returned", "raised"}
    /\ dbi' = [dbi EXCEPT !.pc[t] = "line38"]
    /\ UNCHANGED <<last, mp, gen, xv, ui, asm, eng, prof, dem, thr>>

\* lines 38 and 42-43: if not _db_initialized
TestFlag(t) ==
    /\ dbi.pc[t] = "line38"
    /\ dbi' = [dbi EXCEPT !.pc[t] = IF dbi.db_initialized THEN "returned" ELSE "line40"]
    /\ UNCHANGED <<last, mp, gen, xv, ui, asm, eng, prof, dem, thr>>

\* line 40 and database.py lines 15-40: create_db_and_tables() runs, and
\* re-raises what create_all raised
CreateDbAndTables(t, db_available) ==
    /\ dbi.pc[t] = "line40"
    /\ dbi.executions < MaxExecutions
    /\ dbi' = [dbi EXCEPT !.pc[t] = IF db_available THEN "line41" ELSE "raised",
                          !.executions = dbi.executions + 1,
                          !.succeeded = dbi.succeeded + (IF db_available THEN 1 ELSE 0)]
    /\ UNCHANGED <<last, mp, gen, xv, ui, asm, eng, prof, dem, thr>>

\* line 41: _db_initialized = True
SetDbInitialized(t) ==
    /\ dbi.pc[t] = "line41"
    /\ dbi' = [dbi EXCEPT !.pc[t] = "returned", !.db_initialized = TRUE]
    /\ UNCHANGED <<last, mp, gen, xv, ui, asm, eng, prof, dem, thr>>

DbInitInit ==
    /\ last = NoAttempt /\ mp = MpIdle /\ gen = GenIdle
    /\ xv = XvIdle /\ ui = UiIdle /\ asm = AsmIdle /\ eng = EngIdle
    /\ dbi = DbiIdle /\ prof = ProfIdle /\ dem = DemoIdle /\ thr = ThrIdle

DbInitNext ==
    \E t \in Threads :
        \/ EnsureDbInitializedCall(t)
        \/ TestFlag(t)
        \/ \E db_available \in BOOLEAN : CreateDbAndTables(t, db_available)
        \/ SetDbInitialized(t)

SpecDbInit == DbInitInit /\ [][DbInitNext]_vars

---------------------------------------------------------------------------
(* Web application: the mapping-profile routes of app/routes/mapping.py.    *)
(* prof.profiles is the mapping_profile table; requests are served one at   *)
(* a time, each for the user that is logged in.                              *)

MaxProfiles == 3

ProfileUsers == {1, 2}

ProfileNames == {"sales", "stock"}

\* a row of mapping_profile
ProfileRow(id, user_id, name, is_active) ==
    [id |-> id, user_id |-> user_id, name |-> name, is_active |-> is_active]

Request(route, user, id, outcome) ==
    [route |-> route, user |-> user, id |-> id, outcome |-> outcome]

\* MappingProfile.query.filter_by(user_id=...): here, every row of the table
filter_by_nothing(profiles, user_id) == profiles

\* MappingProfile.query.filter_by(user_id=current_user.id)
filter_by_user_id(profiles, user_id) == {p \in profiles : p.user_id = user_id}

\* MappingProfile.query.get_or_404(profile_id): the rows with that id
query_get(profiles, profile_id) == {p \in profiles : p.id = profile_id}

\* create_profile, lines 21-39: [outcome, profiles]
create_profile(profiles, current_user, name, id) ==
    IF \E p \in filter_by_user_id(profiles, current_user) : p.name = name
    THEN [outcome |-> "exists", profiles |-> profiles]
    ELSE [outcome |-> "created",
          profiles |-> profiles \cup {ProfileRow(id, current_user, name, FALSE)}]

\* lines 143-148: the user's rows are updated to is_active False, the profile
\* is set to True
activate(profiles, current_user, profile_id) ==
    {IF p.id = profile_id THEN [p EXCEPT !.is_active = TRUE]
     ELSE IF p \in filter_by_user_id(profiles, current_user)
     THEN [p EXCEPT !.is_active = FALSE]
     ELSE p : p \in profiles}

\* set_active_profile, lines 132-154: [outcome, profiles]
set_active_profile(profiles, current_user, profile_id, commit_raises) ==
    IF query_get(profiles, profile_id) = {}
    THEN [outcome |-> "404", profiles |-> profiles]
    ELSE IF \E p \in query_get(profiles, profile_id) : p.user_id # current_user
    THEN [outcome |-> "not_authorized", profiles |-> profiles]
    ELSE IF commit_raises THEN [outcome |-> "rolled_back", profiles |-> profiles]
    ELSE [outcome |-> "activated", profiles |-> activate(profiles, current_user, profile_id)]

\* delete_profile, lines 116-130: [outcome, profiles]
delete_profile(profiles, current_user, profile_id, commit_raises) ==
    IF query_get(profiles, profile_id) = {}
    THEN [outcome |-> "404", profiles |-> profiles]
    ELSE IF \E p \in query_get(profiles, profile_id) : p.user_id # current_user
    THEN [outcome |-> "not_authorized", profiles |-> profiles]
    ELSE IF commit_raises THEN [outcome |-> "rolled_back", profiles |-> profiles]
    ELSE [outcome |-> "deleted", profiles |-> profiles \ query_get(profiles, profile_id)]

CreateProfile(current_user, name) ==
    /\ prof.next_id <= MaxProfiles
    /\ LET after(r) ==
               [profiles |-> r.profiles,
                next_id |-> IF r.outcome = "created" THEN prof.next_id + 1 ELSE prof.next_id,
                last |-> Request("create_profile", current_user, prof.next_id, r.outcome)]
       IN prof' = after(create_profile(prof.profiles, current_user, name, prof.next_id))
    /\ UNCHANGED <<last, mp, gen, xv, ui, asm, eng, dbi, dem, thr>>

SetActiveProfile(current_user, profile_id, commit_raises) ==
    /\ LET after(r) ==
               [profiles |-> r.profiles, next_id |-> prof.next_id,
                last |-> Request("set_active_profile", current_user, profile_id, r.outcome)]
       IN prof' = after(set_active_profile(prof.profiles, current_user, profile_id,
                                           commit_raises))
    /\ UNCHANGED <<last, mp, gen, xv, ui, asm, eng, dbi, dem, thr>>

DeleteProfile(current_user, profile_id, commit_raises) ==
    /\ LET after(r) ==
               [profiles |-> r.profiles, next_id |-> prof.next_id,
                last |-> Request("delete_profile", current_user, profile_id, r.outcome)]
       IN prof' = after(delete_profile(prof.profiles, current_user, profile_id, commit_raises))
    /\ UNCHANGED <<last, mp, gen, xv, ui, asm, eng, dbi, dem, thr>>

ProfilesInit ==
    /\ last = NoAttempt /\ mp = MpIdle /\ gen = GenIdle
    /\ xv = XvIdle /\ ui = UiIdle /\ asm = AsmIdle /\ eng = EngIdle
    /\ dbi = DbiIdle /\ prof = ProfIdle /\ dem = DemoIdle /\ thr = ThrIdle

ProfilesNext ==
    \/ \E current_user \in ProfileUsers, name \in ProfileNames :
         CreateProfile(current_user, name)
    \/ \E current_user \in ProfileUsers, profile_id \in 1..MaxProfiles,
          commit_raises \in BOOLEAN :
         SetActiveProfile(current_user, profile_id, commit_raises)
    \/ \E current_user \in ProfileUsers, profile_id \in 1..MaxProfiles,
          commit_raises \in BOOLEAN :
         DeleteProfile(current_user, profile_id, commit_raises)

SpecProfiles == ProfilesInit /\ [][ProfilesNext]_vars

---------------------------------------------------------------------------
(* Demo data: core/demo_data.py populate_demo_data over the tables of        *)
(* models.py.  A customer row is its unique CustomerID and its owner_id; a   *)
(* row of another table is its unique key.                                   *)

MaxPopulateCalls == 3

\* the id of the demo user; 0 stands for no user (or a user without id), 2 for
\* another user
DemoUserId == 1

DemoCallers == {0, DemoUserId, 2}

CustomerRowOf(CustomerID, owner_id) == [CustomerID |-> CustomerID, owner_id |-> owner_id]

\* lines 62-67, 76-81, 94-100, 112-117: the keys of the demo records
demo_customers_data == {"DEMOCUST001", "DEMOCUST002"}
demo_suppliers_data == {"DEMOSUP001", "DEMOSUP002"}
demo_products_data == {"DEMOPROD001", "DEMOSERV001", "DEMOPROD002"}
demo_gl_accounts_data == {"111001", "211001", "611001", "711001"}

\* a key no demo record has
OtherKey == "X1"

existing_customers_unseen(customers, demo_user) == {}

\* lines 57-58: select(Customer).where(Customer.owner_id == demo_user.id)
existing_customers(customers, demo_user) == {c \in customers : c.owner_id = demo_user}

\* lines 58-71: the customers added to the session
added_customers(customers, demo_user) ==
    IF existing_customers(customers, demo_user) # {} THEN {}
    ELSE {CustomerRowOf(k, demo_user) : k \in demo_customers_data}

\* lines 74, 92, 110: the demo records are added only to an empty table
fill_if_empty(table, demo_data) == IF table = {} THEN demo_data ELSE table

\* the unique index of Customer.CustomerID: the pending customers are flushed
\* before the query of line 74, which raises IntegrityError on a repeated key
flush_raises(customers, pending) ==
    \E c \in pending : \E e \in customers : e.CustomerID = c.CustomerID

\* populate_demo_data, lines 45-133: [raised, customers, suppliers, products, accounts]
populate_demo_data(d, demo_user) ==
    IF demo_user = 0
    THEN [raised |-> "none", customers |-> d.customers, suppliers |-> d.suppliers,
          products |-> d.products, accounts |-> d.accounts]
    ELSE IF flush_raises(d.customers, added_customers(d.customers, demo_user))
    THEN [raised |-> "IntegrityError", customers |-> d.customers, suppliers |-> d.suppliers,
          products |-> d.products, accounts |-> d.accounts]
    ELSE [raised |-> "none",
          customers |-> d.customers \cup added_customers(d.customers, demo_user),
          suppliers |-> fill_if_empty(d.suppliers, demo_suppliers_data),
          products |-> fill_if_empty(d.products, demo_products_data),
          accounts |-> fill_if_empty(d.accounts, demo_gl_accounts_data)]

PopulateDemoData(demo_user) ==
    /\ demo_user = DemoUserId => dem.calls < MaxPopulateCalls
    /\ LET after(r) ==
               [customers |-> r.customers, suppliers |-> r.suppliers,
                products |-> r.products, accounts |-> r.accounts,
                calls |-> IF demo_user = DemoUserId THEN dem.calls + 1 ELSE dem.calls,
                raised |-> IF demo_user = DemoUserId THEN r.raised ELSE dem.raised]
       IN dem' = after(populate_demo_data(dem, demo_user))
    /\ UNCHANGED <<last, mp, gen, xv, ui, asm, eng, dbi, prof, thr>>

\* a customer of another origin is stored for an owner
AddCustomer(owner_id) ==
    /\ \A c \in dem.customers : c.CustomerID # OtherKey
    /\ dem' = [dem EXCEPT !.customers = dem.customers \cup {CustomerRowOf(OtherKey, owner_id)}]
    /\ UNCHANGED <<last, mp, gen, xv, ui, asm, eng, dbi, prof, thr>>

\* a supplier, product or account of another origin is stored
AddMasterData(table) ==
    /\ OtherKey \notin dem[table]
    /\ dem' = [dem EXCEPT ![table] = dem[table] \cup {OtherKey}]
    /\ UNCHANGED <<last, mp, gen, xv, ui, asm, eng, dbi, prof, thr>>

\* tests/test_demo_data.py tearDown and setUp: drop_all, create_all
DropAllTables ==
    /\ dem # DemoIdle
    /\ dem' = DemoIdle
    /\ UNCHANGED <<last, mp, gen, xv, ui, asm, eng, dbi, prof, thr>>

DemoInit ==
    /\ last = NoAttempt /\ mp = MpIdle /\ gen = GenIdle
    /\ xv = XvIdle /\ ui = UiIdle /\ asm = AsmIdle /\ eng = EngIdle
    /\ dbi = DbiIdle /\ prof = ProfIdle /\ dem = DemoIdle /\ thr = ThrIdle

DemoNext ==
    \/ \E demo_user \in DemoCallers : PopulateDemoData(demo_user)
    \/ \E owner_id \in DemoCallers : AddCustomer(owner_id)
    \/ \E table \in MasterTables : AddMasterData(table)
    \/ DropAllTables

SpecDemo == DemoInit /\ [][DemoNext]_vars

---------------------------------------------------------------------------
(* Concurrent calls: every thread runs calls of apply_mapping,               *)
(* generate_saft_xml and validate_saft_xml, each on its own input, one step  *)
(* of one thread at a time.  All three functions keep what they compute in   *)
(* locals of the call.                                                       *)

MappingInputs ==
    {[data_rows |-> rows, mapping_profile |-> p] :
        rows \in {<<CustomerRow(<<"P", "T">>)>>,
                  <<CustomerRow(<<"I", "N", "V">>),
                    Without(CustomerRow(<<"P", "T">>), "Contact Name")>>},
        p \in {CustomerProfile, UnknownProfile}}

GeneratorInputs ==
    {[audit_file_data |-> a, pretty_print |-> FALSE] :
        a \in {New("AuditFile", AuditFileArgs(Absent, Absent, Absent)), S(<<"x">>)}}

ValidatorInputs ==
    {[xml_string |-> x, xsd_filepath |-> "ok"] :
        x \in {Xml("doc", generate_saft_xml(New("AuditFile",
                              AuditFileArgs(Absent, Absent, Absent)), FALSE).xml),
               Xml("doc", generate_saft_xml(
                              [New("AuditFile", AuditFileArgs(Absent, Absent, Absent))
                                  EXCEPT !.v["Header"].v["FiscalYear"] = InvalidYear],
                              FALSE).xml),
               Xml("malformed", NoDocument)}}
    \cup {[xml_string |-> Xml("malformed", NoDocument), xsd_filepath |-> "missing"]}

InputsOf(fn) ==
    CASE fn = "apply_mapping" -> MappingInputs
      [] fn = "generate_saft_xml" -> GeneratorInputs
      [] fn = "validate_saft_xml" -> ValidatorInputs

\* a list that every call appends to, whichever thread runs it
populated_models_shared(threads, t) == threads[1].populated_models

\* mapping.py line 38: populated_models = [], a local of the call
populated_models_local(threads, t) == threads[t].populated_models

\* the call of thread t has ended with r
ended(call, r) == [call EXCEPT !.pc = "returned", !.result = r]

\* thread t calls fn on input
ThreadCall(t, fn, input) ==
    /\ thr[t].pc \in {"idle", "returned"}
    /\ thr' = [thr EXCEPT ![t] = [NoThreadCall EXCEPT !.pc = "entered", !.fn = fn,
                                                      !.input = input]]
    /\ UNCHANGED <<last, mp, gen, xv, ui, asm, eng, dbi, prof, dem>>

\* apply_mapping, lines 38-86: the lookup of the target model, one iteration
\* of the loop, or the return
apply_mapping_step(threads, t) ==
    LET call == threads[t]
        TargetModel == registry_get(available_models, call.input.mapping_profile.target_model)
    IN IF call.pc = "entered" /\ not_TargetModel(TargetModel)
       THEN ended(call, [raised |-> "ValueError", populated_models |-> <<>>])
       ELSE IF call.i < Len(call.input.data_rows)
       THEN [call EXCEPT
               !.pc = "loop", !.i = call.i + 1,
               !.populated_models =
                   append_instance(populated_models_local(threads, t), TargetModel,
                       build_model_dict_data(call.input.data_rows[call.i + 1],
                                             call.input.mapping_profile.mappings))]
       ELSE ended(call, [raised |-> "none",
                         populated_models |-> populated_models_local(threads, t)])

\* generate_saft_xml, lines 24-69: the isinstance check, model_dump, unparse
generate_saft_xml_step(call) ==
    IF call.pc = "entered"
    THEN IF isinstance_AuditFile(call.input.audit_file_data)
         THEN [call EXCEPT !.pc = "line55"]
         ELSE ended(call, [raised |-> "TypeError", xml |-> NoDocument])
    ELSE IF call.pc = "line55"
    THEN [call EXCEPT !.pc = "line69",
                      !.audit_file_dict = model_dump(call.input.audit_file_data)]
    ELSE ended(call, [raised |-> "none",
                      xml |-> unparse(call.audit_file_dict, call.input.pretty_print)])

\* validate_saft_xml, lines 22-72: the schema is loaded, the text parsed, the
\* document checked
validate_saft_xml_step(call) ==
    LET loaded(exc) ==
            IF exc = "none" THEN [call EXCEPT !.pc = "PARSE_XML"]
            ELSE ended(call, load_schema_except(exc))
        parsed(exc) ==
            IF exc = "none" THEN [call EXCEPT !.pc = "SCHEMA_CHECK"]
            ELSE ended(call, parse_xml_except(exc))
    IN IF call.pc = "entered"
       THEN loaded(IF etree_parse(call.input.xsd_filepath) # "none"
                   THEN etree_parse(call.input.xsd_filepath)
                   ELSE etree_XMLSchema(call.input.xsd_filepath))
       ELSE IF call.pc = "PARSE_XML"
       THEN parsed(etree_fromstring(call.input.xml_string))
       ELSE ended(call, schema_check(call.input.xml_string, FALSE))

ApplyMappingStep(t) ==
    /\ thr[t].fn = "apply_mapping" /\ thr[t].pc \notin {"idle", "returned"}
    /\ thr' = [thr EXCEPT ![t] = apply_mapping_step(thr, t)]
    /\ UNCHANGED <<last, mp, gen, xv, ui, asm, eng, dbi, prof, dem>>

GenerateSaftXmlStep(t) ==
    /\ thr[t].fn = "generate_saft_xml" /\ thr[t].pc \notin {"idle", "returned"}
    /\ thr' = [thr EXCEPT ![t] = generate_saft_xml_step(thr[t])]
    /\ UNCHANGED <<last, mp, gen, xv, ui, asm, eng, dbi, prof, dem>>

ValidateSaftXmlStep(t) ==
    /\ thr[t].fn = "validate_saft_xml" /\ thr[t].pc \notin {"idle", "returned"}
    /\ thr' = [thr EXCEPT ![t] = validate_saft_xml_step(thr[t])]
    /\ UNCHANGED <<last, mp, gen, xv, ui, asm, eng, dbi, prof, dem>>

ThreadsInit ==
    /\ last = NoAttempt /\ mp = MpIdle /\ gen = GenIdle
    /\ xv = XvIdle /\ ui = UiIdle /\ asm = AsmIdle /\ eng = EngIdle
    /\ dbi = DbiIdle /\ prof = ProfIdle /\ dem = DemoIdle /\ thr = ThrIdle

ThreadsNext ==
    \E t \in Threads :
        \/ \E fn \in {"apply_mapping", "generate_saft_xml", "validate_saft_xml"} :
             \E input \in InputsOf(fn) : ThreadCall(t, fn, input)
        \/ ApplyMappingStep(t)
        \/ GenerateSaftXmlStep(t)
        \/ ValidateSaftXmlStep(t)

SpecThreads == ThreadsInit /\ [][ThreadsNext]_vars

---------------------------------------------------------------------------
(* Domain type library: properties *)

GivenArg(name) == name \in DOMAIN last.args /\ ~IsNone(last.args[name])

\* C1: every successfully constructed GL account, of the schema type or of the
\* Account table type, has GroupingCategory = GM iff TaxonomyCode is present and
\* GroupingCategory in {GA, AA, GM, AM} iff GroupingCode is present.
C1_GLAccountTwoWayRules ==
    Constructed(GLAccountClasses) =>
        /\ (last.obj.v["GroupingCategory"] = S(<<"G", "M">>)) <=> Present("TaxonomyCode")
        /\ (last.obj.v["GroupingCategory"].v
                \in {<<"G", "A">>, <<"A", "A">>, <<"G", "M">>, <<"A", "M">>})
             <=> Present("GroupingCode")

\* C2: every successfully constructed TaxTableEntry has exactly one of
\* TaxPercentage and TaxAmount non-null; an attempt that passes both, or
\* neither, is rejected.
C2_TaxTableEntryExactlyOne ==
    last.cls \in TaxTableEntryClasses =>
        /\ last.ok => (Present("TaxPercentage") # Present("TaxAmount"))
        /\ (GivenArg("TaxPercentage") = GivenArg("TaxAmount")) => ~last.ok

C2_Witness ==
    /\ Constructed({"TaxTableEntry"}) /\ Present("TaxPercentage") /\ ~Present("TaxAmount")

\* C3: no Header whose EndDate is strictly before its StartDate is ever
\* constructed, for the Header type of the AuditFile the generator serializes.
C3_HeaderDateOrder ==
    Constructed({"Header"}) =>
        last.obj.v["StartDate"].v <= last.obj.v["EndDate"].v

---------------------------------------------------------------------------
(* Mapping engine: properties *)

TargetInRegistry == mp.mapping_profile.target_model \in DOMAIN available_models

\* the rows among the first n that fail a field or cross-field constraint of
\* the target type
FailingRows(n) ==
    {k \in 1..n :
        ~ValidateModel(mp.TargetModel,
                       build_model_dict_data(mp.data_rows[k], mp.mapping_profile.mappings)).ok}

C5_RaisesOnlyForUnknownTarget ==
    /\ mp.pc = "raised" =>
         ~TargetInRegistry /\ mp.i = 0 /\ mp.populated_models = <<>>
    /\ mp.pc \in {"loop", "done"} => TargetInRegistry

C5_Witness == mp.pc = "raised" /\ Len(mp.data_rows) = 2

\* no model_path of the mappings is another one or leads through another one
ConflictFree(mappings) ==
    \A j, k \in DOMAIN mappings :
        j # k => mappings[j].model_path[1] # mappings[k].model_path[1]
                 \/ (/\ Len(mappings[j].model_path) = 2 /\ Len(mappings[k].model_path) = 2
                     /\ mappings[j].model_path[2] # mappings[k].model_path[2])

\* what a row's present columns say: every mapped column the row has, at its path
ExpectedData(row, mappings) ==
    LET P == {k \in DOMAIN mappings : mappings[k].csv_column \in DOMAIN row}
        under(n) == {k \in P : mappings[k].model_path[1] = n}
    IN [n \in {mappings[k].model_path[1] : k \in P} |->
          IF \E k \in P : mappings[k].model_path = <<n>>
          THEN row[mappings[CHOOSE k \in P : mappings[k].model_path = <<n>>].csv_column]
          ELSE Dict([f \in {mappings[k].model_path[2] : k \in under(n)} |->
                       row[mappings[CHOOSE k \in under(n) :
                                       mappings[k].model_path[2] = f].csv_column]])]

LastRow == mp.data_rows[mp.i]

MissingColumns ==
    {mp.mapping_profile.mappings[k].csv_column : k \in DOMAIN mp.mapping_profile.mappings}
        \ DOMAIN LastRow

---------------------------------------------------------------------------
(* XML generator: properties *)

\* the instance the last call was given is an AuditFile
GivenAuditFile == gen.before.t = "obj" /\ gen.before.cls = "AuditFile"

Generated == gen.calls >= 1 /\ gen.raised = "none"

KidsOf(e, name) == SelectSeq(e.kids, LAMBDA k : k.tag = name)

FieldNames(cls) == {FieldsOf(cls)[j].n : j \in 1..Len(FieldsOf(cls))}

\* element e renders the instance x: a field that is None has no element, a list
\* has one element per item, any other field exactly one non-empty element, and
\* e has no other children.  With everyPresent, a field that is not None must
\* have at least one element.
RECURSIVE Renders(_, _, _)
Renders(x, e, everyPresent) ==
    /\ \A i \in 1..Len(e.kids) : e.kids[i].tag \in FieldNames(x.cls)
    /\ \A n \in FieldNames(x.cls) :
         LET v == x.v[n]
             ks == KidsOf(e, n)
         IN CASE v.t = "none" -> ks = <<>>
              [] v.t = "list" ->
                    /\ Len(ks) = Len(v.v)
                    /\ everyPresent => Len(ks) >= 1
                    /\ \A m \in 1..Len(ks) : Renders(v.v[m], ks[m], everyPresent)
              [] v.t = "obj" -> Len(ks) = 1 /\ Renders(v, ks[1], everyPresent)
              [] OTHER -> Len(ks) = 1 /\ ks[1].kids = <<>> /\ ks[1].text # <<>>

\* C7: the XML generated from an AuditFile built from constructed entities
\* validates against the schema: (True, []).
C7_RoundTripValid ==
    (gen.checked /\ gen.pristine) => (gen.is_valid /\ gen.errors = <<>>)

C9_TypeErrorOnly ==
    gen.calls >= 1 =>
        IF GivenAuditFile
        THEN gen.raised = "none" /\ gen.xml.full_document
             /\ Renders(gen.before, gen.xml.root, FALSE)
        ELSE gen.raised = "TypeError" /\ gen.xml = NoDocument

C9_Witness ==
    /\ Generated /\ GivenAuditFile /\ ~gen.pristine
    /\ gen.before.v["Header"].v["CompanyName"] = NoneV
    /\ KidsOf(KidsOf(gen.xml.root, "Header")[1], "CompanyName") = <<>>
    /\ gen.checked /\ ~gen.is_valid

\* C10 as claimed: a field that is None has no element, at any depth, and every
\* field that is not None has its element.
C10_EveryPresentFieldHasElement ==
    (Generated /\ GivenAuditFile) => Renders(gen.before, gen.xml.root, TRUE)

\* C10 amended: a field that is None has no element, at any depth; a list has
\* one element per item (none when it is empty); every other field that is not
\* None has exactly one element.
C10_AbsentFieldsOmitted ==
    (Generated /\ GivenAuditFile) => Renders(gen.arg, gen.xml.root, FALSE)

C10_Witness ==
    /\ Generated /\ GivenAuditFile /\ gen.pristine
    /\ gen.arg.v["MasterFiles"].v["Customer"].t = "list"
    /\ Len(gen.arg.v["MasterFiles"].v["Customer"].v) = 1
    /\ gen.arg.v["MasterFiles"].v["Customer"].v[1].v["Contact"] = NoneV
    /\ gen.arg.v["GeneralLedgerEntries"].t = "obj"
    /\ gen.arg.v["GeneralLedgerEntries"].v["Journal"] = Lst(<<>>)
    /\ KidsOf(KidsOf(gen.xml.root, "GeneralLedgerEntries")[1], "Journal") = <<>>

\* digits, a decimal point, exactly two digits
TwoFractionDigits(q) ==
    /\ Len(q) >= 4 /\ q[Len(q) - 2] = "."
    /\ \A i \in (1..Len(q)) \ {Len(q) - 2} : q[i] \in Digits

\* every Decimal held by x, at any depth, is written in e with two fractional digits
RECURSIVE DecimalsTwoPlaces(_, _)
DecimalsTwoPlaces(x, e) ==
    \A n \in FieldNames(x.cls) :
        LET v == x.v[n]
            ks == KidsOf(e, n)
        IN CASE v.t = "decimal" -> \A m \in 1..Len(ks) : TwoFractionDigits(ks[m].text)
             [] v.t = "obj" -> \A m \in 1..Len(ks) : DecimalsTwoPlaces(v, ks[m])
             [] v.t = "list" ->
                   \A m \in 1..Len(ks) : m <= Len(v.v) => DecimalsTwoPlaces(v.v[m], ks[m])
             [] OTHER -> TRUE

\* C11: every monetary/decimal value of an AuditFile the domain types accepted
\* is written with a decimal point and exactly two fractional digits.
C11_DecimalsTwoFractionDigits ==
    (Generated /\ GivenAuditFile /\ gen.pristine) =>
        DecimalsTwoPlaces(gen.before, gen.xml.root)

---------------------------------------------------------------------------
(* Schema validator: properties *)

\* the schema file is the schema, the text is well-formed, the document conforms
XvAllHold ==
    /\ xv.xsd_filepath = "ok"
    /\ xv.xml_string.kind = "doc"
    /\ XsdValid(xv.xml_string.doc)

AllStages == <<"LOAD_SCHEMA", "PARSE_XML", "SCHEMA_CHECK", "REPORT">>

\* C12: the call returns (True, []) only after the schema was loaded, the text
\* parsed and the document accepted; in every other outcome it returns False.
C12_TrueOnlyWhenAllHold ==
    /\ xv.is_valid => (xv.pc = "REPORT" /\ xv.stages = AllStages /\ XvAllHold
                          /\ xv.errors = <<>>)
    /\ (xv.pc = "REPORT" /\ ~XvAllHold) => ~xv.is_valid

C12_Witness ==
    /\ xv.pc = "REPORT" /\ xv.is_valid /\ xv.errors = <<>>
    /\ Len(xv.xml_string.doc.root.kids) = 3

\* C13: no call raises, whatever the text and the path: every failure is a
\* returned (False, errors) with at least one error.
C13_NeverRaises ==
    /\ xv.pc # "raised" /\ xv.raised = "none"
    /\ (xv.pc = "REPORT" /\ ~XvAllHold) => (~xv.is_valid /\ xv.errors # <<>>)

C13_Witness ==
    /\ xv.pc = "REPORT" /\ xv.xml_string.kind = "none" /\ xv.xsd_filepath = "ok"
    /\ ~xv.is_valid /\ xv.errors = <<"Unexpected validation error">>

\* the stage in which the call ended
EndedIn == xv.stages[Len(xv.stages) - 1]

\* C14: the stages run in the order LOAD_SCHEMA, PARSE_XML, SCHEMA_CHECK,
\* REPORT; a call that fails in a stage reports errors of that stage's class
\* only and runs no later stage.
C14_StageOrderAndErrorClass ==
    /\ \A i \in 1..Len(xv.stages) :
          xv.stages[i] = "REPORT" \/ xv.stages[i] = AllStages[i]
    /\ (xv.pc = "REPORT" /\ ~xv.is_valid) =>
          /\ EndedIn = "LOAD_SCHEMA" =>
                xv.errors \in {<<"XSD file error">>, <<"XSD schema parse error">>}
          /\ EndedIn = "PARSE_XML" => xv.errors = <<"Malformed XML">>
          /\ EndedIn = "SCHEMA_CHECK" =>
                \A i \in 1..Len(xv.errors) :
                    xv.errors[i] \in {"SCHEMAV", "Unknown validation error"}
          /\ xv.xsd_filepath = "missing" => xv.errors = <<"XSD file error">>
          /\ (xv.xsd_filepath = "ok" /\ xv.xml_string.kind = "malformed") =>
                xv.errors = <<"Malformed XML">>
          /\ "SCHEMAV" \in Range(xv.errors) => xv.stages = AllStages

---------------------------------------------------------------------------
(* Audit assembly: properties *)

Assembled == asm.pc = "returned"

\* the rows the store holds for the call in a category: the customers of the
\* user, every supplier, every product
HeldFor(category) ==
    CASE category = "Customer" ->
           SelectSeq(asm.customers, LAMBDA c : c.v["owner_id"] = I(asm.current_user.id))
      [] category = "Supplier" -> asm.suppliers
      [] category = "Product" -> asm.products

---------------------------------------------------------------------------
(* HTTP handler: properties *)

---------------------------------------------------------------------------
(* Engine: properties *)

\* the call's CSV file is missing or has no data row, its profile file is
\* missing or invalid, or the profile's target is no table model of the registry
FailingInputs ==
    \/ eng.csv_file.kind # "rows" \/ eng.csv_file.rows = <<>>
    \/ eng.profile_file.kind # "profile"
    \/ LET cls == registry_get(eng.available_saft_models, eng.profile_file.profile.target_model)
       IN cls = NoneCls \/ ~issubclass_SQLModel(cls)

\* a call that got past the database initialization ends by returning, and on
\* the failing inputs it returns [] and leaves the stored rows as they were
ReturnsEmptyOnFailingInputs ==
    /\ eng.pc = "raised" => ~eng.db_initialized
    /\ (eng.pc = "returned" /\ FailingInputs) =>
         (eng.result = <<>> /\ eng.stored = eng.stored_before)

\* C18: no call raises, and on the failing inputs the call returns [] and
\* writes nothing.
C18_NeverRaises ==
    /\ eng.pc # "raised"
    /\ (eng.pc = "returned" /\ FailingInputs) =>
         (eng.result = <<>> /\ eng.stored = eng.stored_before)

---------------------------------------------------------------------------
(* Domain entities after construction: properties *)

\* the Header of the AuditFile at hand satisfies the constraints of its class
HeaderAtHandValid ==
    ValidateModel("Header", gen.arg.v["Header"].v).ok

\* an AuditFile as its construction left it holds a valid Header
PristineHeaderValid ==
    (gen.held /\ gen.pristine) => HeaderAtHandValid

\* C19: every entity that exists satisfies its constraints at all times; no
\* assignment to a field of an existing entity leaves it invalid.
C19_ExistingEntitiesValid ==
    (gen.held /\ isinstance_AuditFile(gen.arg)) => HeaderAtHandValid

---------------------------------------------------------------------------
(* Order of field-level and cross-field checks: properties *)

\* the place of field `name` in the declaration order of class cls
FieldIndex(cls, name) == CHOOSE i \in 1..Len(FieldsOf(cls)) : FieldsOf(cls)[i].n = name

\* C20: a cross-field assertion is evaluated only after the field-level checks
\* passed: no construction reports a cross-field error together with a
\* field-level error of a field declared after the field the assertion is
\* attached to (a model-level assertion comes after every field).
C20_CrossFieldAfterFieldLevel ==
    \A e \in last.errs, f \in last.errs :
        (e.kind = "cross" /\ f.kind = "field") =>
            /\ e.loc # "__root__"
            /\ FieldIndex(last.cls, f.loc) < FieldIndex(last.cls, e.loc)

---------------------------------------------------------------------------
(* Engine, what a call stores: properties *)

\* the instances the rows yield: one for each row whose mapped data satisfies
\* the target model, in the order of the rows
RECURSIVE InstancesOf(_, _, _)
InstancesOf(rows, mappings, cls) ==
    LET one(r) == IF r.ok THEN <<r.obj>> ELSE <<>>
    IN IF rows = <<>> THEN <<>>
       ELSE one(ValidateModel(cls, build_model_dict_data(Head(rows), mappings)))
                \o InstancesOf(Tail(rows), mappings, cls)

\* the instances of the rows of the call's CSV file that validated
ValidatedInstances ==
    InstancesOf(eng.csv_file.rows, eng.profile_file.profile.mappings,
                registry_get(eng.available_saft_models, eng.profile_file.profile.target_model))

\* C22: after a call that returned, on a CSV file with rows, a profile and a
\* table model (the keys of the validated rows being new), the returned list is
\* the instances of exactly the rows that validated and the database holds
\* exactly them in addition to what it held.
C22_StoresExactlyValidatedRows ==
    (/\ eng.pc = "returned" /\ ~FailingInputs
     /\ commit_ok(eng.stored_before, ValidatedInstances)) =>
        /\ eng.result = ValidatedInstances
        /\ eng.stored = eng.stored_before \o ValidatedInstances

\* C30: the validated instances of a file are committed as one batch: after a
\* call that returned, either all of them are stored and returned, or, the
\* commit having failed on a repeated key, none of them is stored and the call
\* returned [].
C30_CommitsAsOneBatch ==
    (eng.pc = "returned" /\ ~FailingInputs /\ ValidatedInstances # <<>>) =>
        IF commit_ok(eng.stored_before, ValidatedInstances)
        THEN eng.stored = eng.stored_before \o ValidatedInstances
             /\ eng.result = ValidatedInstances
        ELSE eng.stored = eng.stored_before /\ eng.result = <<>>

---------------------------------------------------------------------------
(* Schema validator, flag and list: properties *)

\* C27: in every result of validate_saft_xml, is_valid is True iff the error
\* list is empty; a result with is_valid False holds at least one message, also
\* when the schema check failed and the schema's error log was empty.
C27_FlagAndListAgree ==
    xv.pc = "REPORT" => (xv.is_valid <=> xv.errors = <<>>)

C27_Witness ==
    /\ xv.pc = "REPORT" /\ xv.stages = AllStages
    /\ ~xv.is_valid /\ xv.errors = <<"Unknown validation error">>
    /\ ~XsdValid(xv.xml_string.doc)

---------------------------------------------------------------------------
(* Transactions: properties *)

\* C23: no successfully constructed Transaction, of either Transaction type of
\* the domain library, has both CustomerID and SupplierID non-null.
C23_CustomerSupplierExclusive ==
    Constructed(TransactionClasses) => ~(Present("CustomerID") /\ Present("SupplierID"))

\* models.Transaction alone: a construction with both ids is rejected with a
\* cross-field error at SupplierID, the later of the two fields
ModelsTransactionExclusive ==
    last.cls = "Transaction" =>
        /\ last.ok => ~(Present("CustomerID") /\ Present("SupplierID"))
        /\ (GivenArg("CustomerID") /\ GivenArg("SupplierID")) =>
             (~last.ok /\ last.errs = {Err("SupplierID", "cross")})

---------------------------------------------------------------------------
(* Mapping engine, conflicting paths: properties *)

\* mapping k of the row leads through a field that an earlier mapping of the
\* same row has filled with a value of the row
Conflicting(row, mappings, k) ==
    /\ mappings[k].csv_column \in DOMAIN row
    /\ Len(mappings[k].model_path) > 1
    /\ \E j \in 1..(k - 1) :
         /\ mappings[j].csv_column \in DOMAIN row
         /\ mappings[j].model_path = <<mappings[k].model_path[1]>>

Conflicts(row, mappings) == {k \in DOMAIN mappings : Conflicting(row, mappings, k)}

\* the mappings without those that conflict for the row
KeptMappings(row, mappings) ==
    SelectSeq(mappings, LAMBDA m : m \notin {mappings[k] : k \in Conflicts(row, mappings)})

\* C29: when a dotted path of a mapping leads through a field that an earlier
\* mapping of the same row filled with a value, that mapping alone is skipped:
\* the row's data is what all the other mappings place (the earlier value kept,
\* the later mappings applied), and the row yields an entity iff that data
\* satisfies the target model.
C29_ConflictSkipsThatMappingOnly ==
    (/\ mp.pc \in {"loop", "done"} /\ mp.i >= 1
     /\ Conflicts(LastRow, mp.mapping_profile.mappings) # {}
     /\ ConflictFree(KeptMappings(LastRow, mp.mapping_profile.mappings))) =>
        /\ mp.model_dict_data
             = ExpectedData(LastRow, KeptMappings(LastRow, mp.mapping_profile.mappings))
        /\ mp.appended <=>
             ValidateModel(mp.TargetModel,
                 ExpectedData(LastRow, KeptMappings(LastRow, mp.mapping_profile.mappings))).ok

C29_Witness ==
    /\ mp.pc = "done" /\ mp.i = 2
    /\ Conflicts(LastRow, mp.mapping_profile.mappings) = {8}
    /\ mp.model_dict_data["Contact"] = S(<<"A", "n", "a">>)
    /\ "CustomerTaxID" \in DOMAIN mp.model_dict_data
    /\ mp.appended /\ Len(mp.populated_models) = 2

---------------------------------------------------------------------------
(* Mapping engine, row by row: properties *)

\* apply_mapping on the rows of the call from row a to row b
AppliedTo(a, b) == apply_mapping(SubSeq(mp.data_rows, a, b), mp.mapping_profile, available_models)

\* C26: apply_mapping(A ++ B) = apply_mapping(A) ++ apply_mapping(B) for every
\* split of the rows of a call (all three raise when the target is unknown);
\* the entities are those of the rows that validate, in the order of the rows,
\* each row decided on its own.
C26_RowWiseCompositional ==
    /\ mp.pc = "done" =>
         /\ mp.populated_models = AppliedTo(1, Len(mp.data_rows)).populated_models
         /\ \A k \in 0..Len(mp.data_rows) :
               mp.populated_models
                 = AppliedTo(1, k).populated_models
                     \o AppliedTo(k + 1, Len(mp.data_rows)).populated_models
         /\ mp.populated_models
              = InstancesOf(mp.data_rows, mp.mapping_profile.mappings, mp.TargetModel)
    /\ mp.pc = "raised" =>
         \A k \in 0..Len(mp.data_rows) :
             /\ AppliedTo(1, k).raised = "ValueError"
             /\ AppliedTo(k + 1, Len(mp.data_rows)).raised = "ValueError"

C26_Witness ==
    /\ mp.pc = "done" /\ Len(mp.data_rows) = 2 /\ Len(mp.populated_models) = 2
    /\ mp.populated_models[1].v["Contact"] = NoneV
    /\ mp.populated_models[2].v["Contact"] = S(<<"A", "n", "a">>)
    /\ AppliedTo(1, 1).populated_models = <<mp.populated_models[1]>>
    /\ AppliedTo(2, 2).populated_models = <<mp.populated_models[2]>>

---------------------------------------------------------------------------
(* ensure_db_initialized: properties *)

\* until an execution of create_db_and_tables has succeeded the flag is false,
\* so that a call after an execution that raised executes it again
FlagFalseUntilCreated == dbi.succeeded = 0 => ~dbi.db_initialized

\* C25: whatever the number and the interleaving of the calls, also from
\* several threads, create_db_and_tables is executed to its end at most once;
\* an execution that raised leaves the flag false.
C25_CreatedAtMostOnce ==
    /\ dbi.succeeded <= 1
    /\ dbi.succeeded = 0 => ~dbi.db_initialized

---------------------------------------------------------------------------
(* Mapping profiles of the web application: properties *)

ActiveOf(profiles, user) == {p \in profiles : p.user_id = user /\ p.is_active}

OwnedByOthers(profiles, user) == {p \in profiles : p.user_id # user}

\* C28: every user has at most one active profile at any time; the request of
\* a step that activated profile p leaves p as the only active profile of the
\* user and the profiles of every other user as they were; a request on a
\* profile of another user changes nothing.
C28_AtMostOneActiveProfile ==
    /\ [](\A u \in ProfileUsers : Cardinality(ActiveOf(prof.profiles, u)) <= 1)
    /\ [][/\ (prof'.last.route = "set_active_profile" /\ prof'.last.outcome = "activated") =>
               /\ \E p \in prof'.profiles :
                     /\ p.id = prof'.last.id /\ p.user_id = prof'.last.user
                     /\ ActiveOf(prof'.profiles, prof'.last.user) = {p}
               /\ OwnedByOthers(prof'.profiles, prof'.last.user)
                    = OwnedByOthers(prof.profiles, prof'.last.user)
          /\ prof'.last.outcome = "not_authorized" => prof'.profiles = prof.profiles]_vars

C28_Witness ==
    /\ prof.last.route = "set_active_profile" /\ prof.last.outcome = "activated"
    /\ prof.last.user = 1 /\ prof.last.id = 3
    /\ \E p \in prof.profiles : p.user_id = 1 /\ p.id = 1 /\ ~p.is_active
    /\ \E p \in prof.profiles : p.user_id = 2 /\ p.is_active

---------------------------------------------------------------------------
(* Demo data: properties *)

\* the number of the demo user's customers, of suppliers, products and accounts
CountsOf(d) ==
    << Cardinality({c \in d.customers : c.owner_id = DemoUserId}),
       Cardinality(d.suppliers), Cardinality(d.products), Cardinality(d.accounts) >>

---------------------------------------------------------------------------
(* Concurrent calls: properties *)

\* what the call returns (or raises) when nothing else runs
ResultAlone(fn, input) ==
    CASE fn = "apply_mapping" ->
           apply_mapping(input.data_rows, input.mapping_profile, available_models)
      [] fn = "generate_saft_xml" ->
           generate_saft_xml(input.audit_file_data, input.pretty_print)
      [] fn = "validate_saft_xml" ->
           validate_saft_xml_at(input.xml_string, input.xsd_filepath)

\* C21: in every interleaving of the steps of concurrent calls of
\* apply_mapping, generate_saft_xml and validate_saft_xml, each on its own
\* input, every call that has ended has the result it has when run alone.
C21_ConcurrentCallsAsAlone ==
    \A t \in Threads :
        thr[t].pc = "returned" => thr[t].result = ResultAlone(thr[t].fn, thr[t].input)

C21_Witness ==
    /\ thr[1].pc = "returned" /\ thr[1].fn = "apply_mapping"
    /\ Len(thr[1].input.data_rows) = 2 /\ Len(thr[1].result.populated_models) = 1
    /\ thr[2].fn = "apply_mapping" /\ thr[2].pc = "loop"
    /\ Len(thr[2].input.data_rows) = 1 /\ Len(thr[2].populated_models) = 1

====
